---- MODULE Spec2Model ----
(***************************************************************************)
(* BreezeDB: the in-memory store (BreezeDB), its TTL index (TTLManager)    *)
(* and the persistence manager (PersistenceManager).                       *)
(*                                                                         *)
(* Time is the value of Date.now() in milliseconds.  Maps are functions    *)
(* whose domain is the set of keys present.  A synchronous method is one   *)
(* action; an asynchronous method is one action per stretch of code        *)
(* between two awaited file operations.                                    *)
(***************************************************************************)
EXTENDS Integers, Sequences, FiniteSets, TLC

\* ------------------------------------------------------------------ bounds
MaxTicks == 3
MaxQueue == 2
MaxStack == 2
MaxBatch == 2

\* ------------------------------------------------------- program constants
MsPerSecond == 1000

Keys == {"a"}
Values == {"v1", "v2"}
TTLs == {1}
Undefined == "undefined"
\* options.encryptionKey when none was given.
NoKey == Undefined
\* What a call that throws gives in place of a return value.
Thrown == "<throws>"
Version == "1.0.0"

VARIABLES
  now,            \* Date.now()
  data,           \* BreezeDB.data : Map<string, any>
  ttlData,        \* TTLManager.ttlData : Map<string, number>
  isDirty,        \* BreezeDB.isDirty
  autoSaveTimer,  \* BreezeDB.autoSaveTimer: "null", "armed", or "cleared"
  timeouts,       \* the auto-save timeouts set and neither fired nor cancelled
  cleanupInterval,\* TTLManager.cleanupInterval is set (the sweep timer runs)
  listeners,      \* the events that have a subscriber
  hooks,          \* the process exit/SIGINT/SIGTERM hooks are registered
  options,        \* BreezeDB.options (fixed at construction)
  files,          \* the file system: path -> content
  isWriting,      \* PersistenceManager.isWriting
  writeQueue,     \* PersistenceManager.writeQueue: number of queued resolvers
  savePc,         \* where the in-flight PersistenceManager.save() is suspended
  savePayload,    \* its processedData
  loadPc,         \* where the in-flight PersistenceManager.load() is suspended
  loadDepth,      \* how many nested load() calls it has made
  crashed,        \* the process was killed
  constructed,    \* new BreezeDB(...) has returned a store
  dirExists,      \* the directory of the database file exists
  writesInFlight, \* write sequences begun and not yet ended
  saveCaller,     \* who awaits the write in flight: "none", "save" or "timer"
  last,           \* the last call: what it was, what it returned, what it emitted
  tracked,        \* key -> the value and expiry given by its last set(k, v, ttl)
  shard           \* the sharded prototype's instance: its fields and node files

coreVars == <<now, data, ttlData, isDirty, autoSaveTimer, timeouts, cleanupInterval,
              listeners, hooks, options, files, isWriting, writeQueue, savePc,
              savePayload, loadPc, loadDepth, crashed, constructed, dirExists,
              writesInFlight, saveCaller, last, tracked>>

vars == <<coreVars, shard>>

storeVars == <<data, ttlData, isDirty, autoSaveTimer, timeouts>>
saveVars == <<isWriting, writeQueue, savePc, savePayload, writesInFlight, saveCaller>>
loadVars == <<loadPc, loadDepth>>
envVars == <<cleanupInterval, listeners, hooks, options, crashed, constructed,
            dirExists>>

\* --------------------------------------------------------------------- Map
EmptyMap == [x \in {} |-> Undefined]

\* No instance of the sharded prototype has been made.
ShardOff == [built |-> FALSE]
Put(m, k, v) == [x \in (DOMAIN m) \cup {k} |-> IF x = k THEN v ELSE m[x]]
Remove(m, k) == [x \in (DOMAIN m) \ {k} |-> m[x]]
RemoveAll(m, ks) == [x \in (DOMAIN m) \ ks |-> m[x]]
MapGet(m, k) == IF k \in DOMAIN m THEN m[k] ELSE Undefined

\* --------------------------------------------------------- ValidationUtils
\* A key argument that is not a string (a number, null, an object).
NotAString == "<not a string>"

\* The ttl arguments: null (also what an absent ttl defaults to), a number,
\* NaN, Infinity, a value that is not a number.  Numbers above
\* Number.MAX_SAFE_INTEGER are not drawn.
NullTTL == [type |-> "null", num |-> 0]
NumTTL(n) == [type |-> "number", num |-> n]
NaNTTL == [type |-> "NaN", num |-> 0]
InfiniteTTL == [type |-> "Infinity", num |-> 0]
StringTTL == [type |-> "string", num |-> 0]

\* A validateKey that accepts everything (C16's fault).
AnyKey(k) == TRUE

\* validateKey: typeof key === 'string' && key.length > 0, else throw.
ValidateKey(k) == k # NotAString /\ k # ""

\* validateTTL: null, or typeof 'number', > 0 and finite, else throw.
ValidateTTL(ttl) ==
  \/ ttl = NullTTL
  \/ /\ ttl.type \in {"number", "NaN", "Infinity"}
     /\ ~(ttl.type = "number" /\ ttl.num <= 0)
     /\ ttl.type = "number"

\* validateBatchOperations: an array whose entries are objects with type
\* 'set' or 'delete', else throw.  Keys and ttls are not looked at.
ValidateBatchOperations(arg) ==
  /\ arg.isArray
  /\ \A i \in DOMAIN arg.items :
       arg.items[i].isObject /\ arg.items[i].type \in {"set", "delete"}

\* -------------------------------------------------------------- TTLManager
\* setTTL stores Date.now() + ttlSeconds * 1000.
TTLExpiration(ttlSeconds, t) == t + ttlSeconds * MsPerSecond

\* An index whose records never come due (C26's fault).
NeverExpired(ttl, k, t) == FALSE

\* isExpired: expiration ? Date.now() >= expiration : false
IsExpired(ttl, k, t) == k \in DOMAIN ttl /\ ttl[k] # 0 /\ t >= ttl[k]

\* A scan that takes a record for expired only once its expiry is past
\* (C32's fault).
StrictlyPast(ttl, t) == {k \in DOMAIN ttl : t > ttl[k]}

\* getExpiredKeys: every key whose expiration is <= now.
GetExpiredKeys(ttl, t) == {k \in DOMAIN ttl : t >= ttl[k]}

\* getTTL: null without a record (or with a falsy one); else
\* Math.max(0, expiration - Date.now()) / 1000 when that is positive, else
\* null.  The number of seconds is kept as its count of milliseconds.
Remaining(ms) == [type |-> "number", ms |-> ms]
GetTTL(ttl, k, t) ==
  IF k \notin DOMAIN ttl \/ ttl[k] = 0 THEN NullTTL
  ELSE LET remaining == IF ttl[k] - t > 0 THEN ttl[k] - t ELSE 0
       IN IF remaining > 0 THEN Remaining(remaining) ELSE NullTTL

\* A snapshot that keeps every record, expired or not (C31's fault).
AllRecords(ttl, t) == ttl

\* getAllTTLData: the records that have not expired.
GetAllTTLData(ttl, t) ==
  [k \in {x \in DOMAIN ttl : t < ttl[x]} |-> ttl[k]]

\* loadTTLData: clear, then set every record of the loaded object.
LoadTTLData(loaded) == loaded

\* ------------------------------------------------- BreezeDB, synchronous part
\* The fields a synchronous method reads and writes, and the events it emits.
Store == [data |-> data, ttl |-> ttlData, dirty |-> isDirty,
          timer |-> autoSaveTimer, timeouts |-> timeouts, ev |-> << >>]

Emit(st, e) == [st EXCEPT !.ev = Append(@, e)]

\* A markDirty that sets a timeout on every call (C27's fault).
ArmAlways(st) ==
  [st EXCEPT !.dirty = TRUE, !.timer = "armed", !.timeouts = @ + 1]

\* markDirty: set the flag; when auto-save is on and no handle is held,
\* setTimeout and keep the handle.
MarkDirty(st) ==
  IF options.autoSave /\ st.timer = "null"
  THEN [st EXCEPT !.dirty = TRUE, !.timer = "armed", !.timeouts = @ + 1]
  ELSE [st EXCEPT !.dirty = TRUE]

\* TTLManager.setTTL / clearTTL on the store's index.
StSetTTL(st, k, ttlSeconds, t) ==
  Emit([st EXCEPT !.ttl = Put(st.ttl, k, TTLExpiration(ttlSeconds, t))], "ttl-set")

\* A clearTTL that leaves the record in place (C24's fault).
KeepTTL(st, k) == st

StClearTTL(st, k) ==
  IF k \in DOMAIN st.ttl
  THEN Emit([st EXCEPT !.ttl = Remove(st.ttl, k)], "ttl-cleared")
  ELSE st

\* TTLManager.removeExpiredKeys
StRemoveExpiredKeys(st, ks) ==
  IF ks # {}
  THEN Emit([st EXCEPT !.ttl = RemoveAll(st.ttl, ks)], "expired")
  ELSE st

\* BreezeDB.set, past its validation.
StSet(st, k, v, ttl, t) ==
  LET s1 == [st EXCEPT !.data = Put(st.data, k, v)]
      s2 == IF ttl # NullTTL THEN StSetTTL(s1, k, ttl.num, t) ELSE StClearTTL(s1, k)
  IN Emit(MarkDirty(s2), "set")

\* BreezeDB.delete
StDelete(st, k) ==
  LET existed == k \in DOMAIN st.data
      s1 == StClearTTL([st EXCEPT !.data = Remove(st.data, k)], k)
  IN IF existed THEN Emit(MarkDirty(s1), "delete") ELSE s1

\* A cleanup that drops the expired TTL records and leaves the entries, as
\* the sweep timer does (C25's fault).
CleanupTTLOnly(st, t) == StRemoveExpiredKeys(st, GetExpiredKeys(st.ttl, t))

\* BreezeDB.cleanupExpired
StCleanupExpired(st, t) ==
  LET expired == GetExpiredKeys(st.ttl, t)
      s1 == [st EXCEPT !.data = RemoveAll(st.data, expired)]
      s2 == StRemoveExpiredKeys(s1, expired)
  IN IF expired # {} THEN MarkDirty(s2) ELSE s2

\* What get, has and keys return in the current state.
GetResult(k) == IF IsExpired(ttlData, k, now) THEN Undefined ELSE MapGet(data, k)
\* A has() that finds every key (C30's fault).
AlwaysPresent(k) == TRUE

HasResult(k) == IF IsExpired(ttlData, k, now) THEN FALSE ELSE k \in DOMAIN data
KeysResult == DOMAIN StCleanupExpired(Store, now).data

\* ---------------------------------------------------------------- the files
FilePath == "main"
BackupPath == "backup"
\* A write made in place, with no temp file (C7's fault).
WriteInPlace == "main"
TempPath == "tmp"
Paths == {"main", "backup", "tmp"}

\* A file's content: none (no such file), bytes that decode to nothing
\* (corrupt), the torn result of an interrupted write (partial), or the bytes a
\* save produced: the serialized text under the codec layers applied to it,
\* innermost first.
NoFile == [kind |-> "none"]
Corrupt == [kind |-> "corrupt"]
Partial == [kind |-> "partial"]
Bytes(layers, text) == [kind |-> "bytes", layers |-> layers, text |-> text]

Exists(fs, p) == fs[p] # NoFile
WriteFile(fs, p, c) == [fs EXCEPT ![p] = c]
CopyFile(fs, src, dst) == [fs EXCEPT ![dst] = fs[src]]
Rename(fs, src, dst) ==
  IF src = dst THEN fs ELSE [fs EXCEPT ![dst] = fs[src], ![src] = NoFile]

\* ------------------------------------------------------- PersistenceManager
\* A serialization that leaves out what the store holds (C28's fault).
StaleDocument(d, ttl, t) ==
  [data |-> EmptyMap, ttl |-> EmptyMap, version |-> Version, timestamp |-> t]

\* serialize: JSON text of { data, ttl, version, timestamp }.  The values of
\* the model are JSON strings, which JSON.stringify and JSON.parse give back
\* unchanged, so the text is written as the document it denotes.
Serialize(d, ttl, t) ==
  [data |-> d, ttl |-> ttl, version |-> Version, timestamp |-> t]

\* deserialize: the entries of parsed.data and of parsed.ttl.
Deserialize(text) == [data |-> text.data, ttlData |-> text.ttl]

\* A save side that encrypts first and compresses the ciphertext (C22's
\* fault).
EncryptFirst(opts) ==
  (IF opts.encryption /\ opts.encryptionKey # NoKey THEN <<"aes">> ELSE << >>)
    \o (IF opts.compression THEN <<"gzip">> ELSE << >>)

\* The stages of processForStorage in the order it applies them: gzip if
\* compression, then AES if encryption and a key.
SaveStages(opts) ==
  (IF opts.compression THEN <<"gzip">> ELSE << >>)
    \o (IF opts.encryption /\ opts.encryptionKey # NoKey THEN <<"aes">> ELSE << >>)

\* processForStorage: the text wrapped in each stage in turn.
ProcessForStorage(text, opts) == Bytes(SaveStages(opts), text)

\* processForStorageSync: gzipSync if compression, then AES if encryption and
\* a key.  gzipSync writes the format gzip writes.
ProcessForStorageSync(text, opts) ==
  Bytes((IF opts.compression THEN <<"gzip">> ELSE << >>)
          \o (IF opts.encryption /\ opts.encryptionKey # NoKey
              THEN <<"aes">> ELSE << >>),
        text)

\* processFromStorage: decrypt if encryption, then gunzip if compression, then
\* the result is read as text.  Each stage fails on bytes its counterpart did
\* not produce.  The result is the remaining content, or Corrupt on failure.
Outer(c) == c.layers[Len(c.layers)]
Strip(c) == Bytes(SubSeq(c.layers, 1, Len(c.layers) - 1), c.text)
Unwrap(c, enabled, layer) ==
  IF ~enabled \/ c = Corrupt THEN c
  ELSE IF c.layers # << >> /\ Outer(c) = layer THEN Strip(c) ELSE Corrupt

ProcessFromStorage(c, opts) ==
  IF c.kind # "bytes" THEN Corrupt
  ELSE LET decrypted == Unwrap(c, opts.encryption /\ opts.encryptionKey # NoKey, "aes")
           unzipped == Unwrap(decrypted, opts.compression, "gzip")
       IN IF unzipped # Corrupt /\ unzipped.layers = << >> THEN unzipped ELSE Corrupt

\* processFromStorageSync: decrypt if encryption and a key, then gunzipSync
\* if compression, then the result is read as text.
ProcessFromStorageSync(c, opts) ==
  IF c.kind # "bytes" THEN Corrupt
  ELSE LET decrypted == Unwrap(c, opts.encryption /\ opts.encryptionKey # NoKey, "aes")
           unzipped == Unwrap(decrypted, opts.compression, "gzip")
       IN IF unzipped # Corrupt /\ unzipped.layers = << >> THEN unzipped ELSE Corrupt

\* A file the try block of load / of loadSync reads without throwing.
Loadable(c, opts) == ProcessFromStorage(c, opts) # Corrupt
LoadableSync(c, opts) == ProcessFromStorageSync(c, opts) # Corrupt

\* A result that is not empty (C11's fault).
LeftoverResult == [data |-> [k \in {"a"} |-> "v1"], ttlData |-> EmptyMap]

\* return { data: new Map(), ttlData: {} }
EmptyResult == [data |-> EmptyMap, ttlData |-> EmptyMap]

\* A catch block that takes the backup file for granted (C12's fault).
BackupAssumed(fs) == TRUE

\* if (fs.existsSync(this.backupPath)) in the catch block of load/loadSync.
BackupExists(fs) == Exists(fs, BackupPath)

\* loadSync.  lst is the set of events with a subscriber: emitting 'error'
\* with no subscriber throws.  depth is the number of loadSync frames on the
\* stack; past MaxStack the call overflows the stack and throws.
\* Gives the files afterwards, whether a result was returned, the result,
\* the events emitted and how many times the backup was copied onto the main
\* file.
RECURSIVE LoadSyncRec(_, _, _, _)
LoadSyncRec(fs, opts, lst, depth) ==
  LET thrown(f, ev, n) ==
        [files |-> f, ok |-> FALSE, result |-> EmptyResult, ev |-> ev, restores |-> n]
  IN
  IF depth > MaxStack THEN thrown(fs, << >>, 0)
  ELSE IF ~Exists(fs, FilePath)
  THEN [files |-> fs, ok |-> TRUE, result |-> EmptyResult, ev |-> << >>, restores |-> 0]
  ELSE IF LoadableSync(fs[FilePath], opts)
  THEN [files |-> fs, ok |-> TRUE,
        result |-> Deserialize(ProcessFromStorageSync(fs[FilePath], opts).text),
        ev |-> <<"load">>, restores |-> 0]
  ELSE IF BackupExists(fs)
  THEN IF "error" \notin lst
       THEN thrown(fs, << >>, 0)
       ELSE LET inner == LoadSyncRec(CopyFile(fs, BackupPath, FilePath), opts, lst, depth + 1)
            IN IF inner.ok
               THEN [inner EXCEPT !.ev = <<"error">> \o @, !.restores = @ + 1]
               ELSE thrown(inner.files, <<"error">> \o inner.ev \o <<"error", "error">>,
                           inner.restores + 1)
  ELSE thrown(fs, IF "error" \in lst THEN <<"error">> ELSE << >>, 0)

\* BreezeDB.load / loadSync after the persistence manager returned: replace
\* the map, load the TTL index, sweep.
StLoad(st, result, t) ==
  StCleanupExpired([st EXCEPT !.data = result.data,
                              !.ttl = LoadTTLData(result.ttlData)], t)

\* ------------------------------------------------------------------- state
Last(op, key, ret, ok, ev, n) ==
  [op |-> op, key |-> key, ret |-> ret, ok |-> ok, ev |-> ev, n |-> n]

Commit(st) ==
  /\ data' = st.data
  /\ ttlData' = st.ttl
  /\ isDirty' = st.dirty
  /\ autoSaveTimer' = st.timer
  /\ timeouts' = st.timeouts

Commit_Init(st) ==
  /\ data = st.data
  /\ ttlData = st.ttl
  /\ isDirty = st.dirty
  /\ autoSaveTimer = st.timer
  /\ timeouts = st.timeouts

\* The options a store is constructed with: the defaults (auto-save on, the
\* codec stages off), both codec stages on, everything off.
DefaultOptions == [compression |-> FALSE, encryption |-> FALSE,
                   encryptionKey |-> NoKey, autoSave |-> TRUE]
CodecOptions == [compression |-> TRUE, encryption |-> TRUE,
                 encryptionKey |-> "secret", autoSave |-> FALSE]
PlainOptions == [compression |-> FALSE, encryption |-> FALSE,
                 encryptionKey |-> NoKey, autoSave |-> FALSE]
\* One codec stage on, the other off.
CompressOptions == [PlainOptions EXCEPT !.compression = TRUE]
EncryptOptions == [PlainOptions EXCEPT !.encryption = TRUE, !.encryptionKey = "secret"]
\* The four combinations of {compression, encryption}.
CodecChoices == {PlainOptions, CompressOptions, EncryptOptions, CodecOptions}

EmptyStore ==
  [data |-> EmptyMap, ttl |-> EmptyMap, dirty |-> FALSE, timer |-> "null", timeouts |-> 0, ev |-> << >>]

\* What a previous run may have left on disk.
DiskDoc(v, opts) ==
  ProcessForStorage(Serialize([k \in {"a"} |-> v], EmptyMap, 0), opts)

\* The constructor: defaults, then loadSync() with no subscriber yet attached;
\* a failed load is caught and the store starts empty.
InitWith(choices) ==
  \E opts \in choices :
  \E m \in {NoFile, Corrupt, DiskDoc("v1", opts)} :
  \E b \in {NoFile, Corrupt, DiskDoc("v2", opts)} :
    LET fs0 == [p \in Paths |-> IF p = FilePath THEN m
                                ELSE IF p = BackupPath THEN b ELSE NoFile]
        r == LoadSyncRec(fs0, opts, {}, 0)
        st0 == [data |-> EmptyMap, ttl |-> EmptyMap, dirty |-> FALSE,
                timer |-> "null", timeouts |-> 0, ev |-> << >>]
    IN /\ options = opts
       /\ now = MsPerSecond
       /\ files = r.files
       /\ Commit_Init(IF r.ok THEN StLoad(st0, r.result, MsPerSecond) ELSE st0)
       /\ cleanupInterval = TRUE
       /\ listeners = {}
       /\ hooks = TRUE
       /\ isWriting = FALSE
       /\ writeQueue = 0
       /\ savePc = "idle"
       /\ savePayload = NoFile
       /\ loadPc = "idle"
       /\ loadDepth = 0
       /\ crashed = FALSE
       /\ constructed = TRUE
       /\ dirExists = TRUE
       /\ writesInFlight = 0
       /\ saveCaller = "none"
       /\ last = Last("new", "", Undefined, r.ok, r.ev, r.restores)
       /\ tracked = EmptyMap
       /\ shard = ShardOff

Init == InitWith({DefaultOptions, CodecOptions, PlainOptions})

\* Encryption switched on and no key given.
KeylessOptions == [compression |-> FALSE, encryption |-> TRUE,
                   encryptionKey |-> NoKey, autoSave |-> TRUE]

\* A constructor that accepts a missing key (C21's fault).
KeyAccepted(opts) == FALSE

\* if (this.options.encryption && !this.options.encryptionKey) throw
KeyMissing(opts) == opts.encryption /\ opts.encryptionKey = NoKey

\* new BreezeDB(filePath, options), run as one step: the options with their
\* defaults, the encryption check, the TTLManager (which starts its sweep
\* timer), the PersistenceManager (which creates the directory), loadSync()
\* with a failure caught, the process hooks.
New(opts) ==
  /\ ~constructed
  /\ UNCHANGED shard
  /\ ~crashed
  /\ options' = opts
  /\ IF KeyMissing(opts)
     THEN /\ last' = Last("new", "", Thrown, FALSE, << >>, 0) @@ [opts |-> opts]
          /\ UNCHANGED <<storeVars, files, cleanupInterval, hooks, constructed,
                         dirExists>>
     ELSE \E r \in {LoadSyncRec(files, opts, {}, 0)} :
          LET st0 == [data |-> EmptyMap, ttl |-> EmptyMap, dirty |-> FALSE,
                      timer |-> "null", timeouts |-> 0, ev |-> << >>]
          IN /\ cleanupInterval' = TRUE
             /\ dirExists' = TRUE
             /\ files' = r.files
             /\ Commit(IF r.ok THEN StLoad(st0, r.result, now) ELSE st0)
             /\ hooks' = TRUE
             /\ constructed' = TRUE
             /\ last' = Last("new", "", Undefined, r.ok, r.ev, r.restores)
                          @@ [opts |-> opts]
  /\ UNCHANGED <<now, saveVars, loadVars, listeners, crashed, tracked>>

\* ------------------------------------------------------------ time, timers
\* A store exists and its process is alive: the calls and callbacks below
\* run only then.
Running == constructed /\ ~crashed

Tick ==
  /\ Running
  /\ UNCHANGED shard
  /\ now < MaxTicks * MsPerSecond
  /\ now' = now + MsPerSecond
  /\ last' = Last("tick", "", Undefined, TRUE, << >>, 0)
  /\ UNCHANGED <<storeVars, saveVars, loadVars, envVars, files, tracked>>

\* The TTLManager's interval callback: getExpiredKeys, removeExpiredKeys.
SweepTimer ==
  /\ Running
  /\ UNCHANGED shard
  /\ cleanupInterval
  /\ LET st == StRemoveExpiredKeys(Store, GetExpiredKeys(ttlData, now))
     IN /\ Commit(st)
        /\ last' = Last("sweep", "", Undefined, TRUE, st.ev, 0)
  /\ UNCHANGED <<now, saveVars, loadVars, envVars, files, tracked>>

\* db.on('error', listener)
OnError ==
  /\ Running
  /\ UNCHANGED shard
  /\ "error" \notin listeners
  /\ listeners' = listeners \cup {"error"}
  /\ last' = Last("on", "", Undefined, TRUE, << >>, 0)
  /\ UNCHANGED <<now, storeVars, saveVars, loadVars, files, tracked,
                 cleanupInterval, hooks, options, crashed, constructed,
                 dirExists>>

\* ------------------------------------------------- BreezeDB, the sync calls
\* A call that throws before it touches the store.  The ghost record of a
\* call keeps, besides the fields of Last, the ttl or the list it was given.
Throws(op, k) ==
  /\ last' = Last(op, k, Thrown, FALSE, << >>, 0)
  /\ UNCHANGED <<storeVars, tracked>>

\* The ghost record of set(k, v, ttl).
Track(tr, k, v, ttl, t) ==
  IF ttl # NullTTL
  THEN Put(tr, k, [val |-> v, exp |-> TTLExpiration(ttl.num, t)])
  ELSE Remove(tr, k)

Set(k, v, ttl) ==
  /\ Running
  /\ UNCHANGED shard
  /\ IF ValidateKey(k) /\ ValidateTTL(ttl)
     THEN /\ LET st == StSet(Store, k, v, ttl, now)
             IN /\ Commit(st)
                /\ last' = Last("set", k, Undefined, TRUE, st.ev, 0) @@ [ttl |-> ttl]
          /\ tracked' = Track(tracked, k, v, ttl, now)
     ELSE /\ last' = Last("set", k, Thrown, FALSE, << >>, 0) @@ [ttl |-> ttl]
          /\ UNCHANGED <<storeVars, tracked>>
  /\ UNCHANGED <<now, saveVars, loadVars, envVars, files>>

Get(k) ==
  /\ Running
  /\ UNCHANGED shard
  /\ IF ValidateKey(k)
     THEN /\ LET st == IF IsExpired(ttlData, k, now)
                       THEN StDelete(Store, k)
                       ELSE Emit(Store, "get")
             IN /\ Commit(st)
                /\ last' = Last("get", k, GetResult(k), TRUE, st.ev, 0)
          /\ UNCHANGED tracked
     ELSE Throws("get", k)
  /\ UNCHANGED <<now, saveVars, loadVars, envVars, files>>

Has(k) ==
  /\ Running
  /\ UNCHANGED shard
  /\ IF ValidateKey(k)
     THEN /\ LET st == IF IsExpired(ttlData, k, now) THEN StDelete(Store, k) ELSE Store
             IN /\ Commit(st)
                /\ last' = Last("has", k, Undefined, HasResult(k), st.ev, 0)
          /\ UNCHANGED tracked
     ELSE Throws("has", k)
  /\ UNCHANGED <<now, saveVars, loadVars, envVars, files>>

Delete(k) ==
  /\ Running
  /\ UNCHANGED shard
  /\ IF ValidateKey(k)
     THEN /\ LET st == StDelete(Store, k)
             IN /\ Commit(st)
                /\ last' = Last("delete", k, Undefined, k \in DOMAIN data, st.ev, 0)
          /\ tracked' = Remove(tracked, k)
     ELSE Throws("delete", k)
  /\ UNCHANGED <<now, saveVars, loadVars, envVars, files>>

Clear ==
  /\ Running
  /\ UNCHANGED shard
  /\ LET s1 == [Store EXCEPT !.data = EmptyMap, !.ttl = EmptyMap]
         st == IF DOMAIN data # {} THEN Emit(MarkDirty(s1), "clear") ELSE s1
     IN /\ Commit(st)
        /\ last' = Last("clear", "", Undefined, TRUE, st.ev, 0)
  /\ tracked' = EmptyMap
  /\ UNCHANGED <<now, saveVars, loadVars, envVars, files>>

\* BreezeDB.setTTL: validateTTL, then has(key), which validates the key and
\* deletes an expired one.
SetTTL(k, ttl) ==
  /\ Running
  /\ UNCHANGED shard
  /\ IF ValidateTTL(ttl) /\ ValidateKey(k)
     THEN LET s1 == IF IsExpired(ttlData, k, now) THEN StDelete(Store, k) ELSE Store
              present == HasResult(k)
              st == IF present THEN MarkDirty(StSetTTL(s1, k, ttl.num, now)) ELSE s1
          IN /\ Commit(st)
             /\ last' = Last("setTTL", k, Undefined, present, st.ev, 0) @@ [ttl |-> ttl]
             /\ tracked' = IF present THEN Remove(tracked, k) ELSE tracked
     ELSE /\ last' = Last("setTTL", k, Thrown, FALSE, << >>, 0) @@ [ttl |-> ttl]
          /\ UNCHANGED <<storeVars, tracked>>
  /\ UNCHANGED <<now, saveVars, loadVars, envVars, files>>

\* A delete that always reports success (C18's fault).
DeleteSucceeds(st, k) == TRUE

\* const deleted = this.delete(key): whether the map held the key.
DeleteResult(st, k) == k \in DOMAIN st.data

\* The loop of batch from entry i on: set(key, value, ttl ?? null) or
\* delete(key), each with its own validation; an entry that throws ends the
\* loop and leaves what the entries before it did.
RECURSIVE BatchRun(_, _, _, _)
BatchRun(r, items, i, t) ==
  IF i > Len(items) \/ r.thrown THEN r
  ELSE LET op == items[i]
           done(st, tr, success) ==
             [st |-> st, tracked |-> tr, thrown |-> FALSE,
              results |-> Append(r.results,
                                 [type |-> op.type, key |-> op.key, success |-> success])]
           next ==
             IF op.type = "set"
             THEN IF ValidateKey(op.key) /\ ValidateTTL(op.ttl)
                  THEN done(StSet(r.st, op.key, op.value, op.ttl, t),
                            Track(r.tracked, op.key, op.value, op.ttl, t), TRUE)
                  ELSE [r EXCEPT !.thrown = TRUE]
             ELSE IF ValidateKey(op.key)
                  THEN done(StDelete(r.st, op.key), Remove(r.tracked, op.key),
                            DeleteResult(r.st, op.key))
                  ELSE [r EXCEPT !.thrown = TRUE]
       IN BatchRun(next, items, i + 1, t)

\* BreezeDB.batch.  The ghost record keeps the argument and the results.
Batch(arg) ==
  /\ Running
  /\ UNCHANGED shard
  /\ IF ValidateBatchOperations(arg)
     THEN \E r \in {BatchRun([st |-> Store, tracked |-> tracked, thrown |-> FALSE,
                                results |-> << >>], arg.items, 1, now)} :
          \E st \in {IF r.thrown THEN r.st ELSE Emit(r.st, "batch")} :
             /\ Commit(st)
             /\ tracked' = r.tracked
             /\ last' = Last("batch", "", IF r.thrown THEN Thrown ELSE Undefined,
                             ~r.thrown, st.ev, Len(r.results))
                          @@ [arg |-> arg, results |-> r.results]
     ELSE /\ last' = Last("batch", "", Thrown, FALSE, << >>, 0)
                       @@ [arg |-> arg, results |-> << >>]
          /\ UNCHANGED <<storeVars, tracked>>
  /\ UNCHANGED <<now, saveVars, loadVars, envVars, files>>

ClearTTL(k) ==
  /\ Running
  /\ UNCHANGED shard
  /\ LET had == k \in DOMAIN ttlData
         s1 == StClearTTL(Store, k)
         st == IF had THEN MarkDirty(s1) ELSE s1
     IN /\ Commit(st)
        /\ last' = Last("clearTTL", k, Undefined, had, st.ev, 0)
  /\ tracked' = Remove(tracked, k)
  /\ UNCHANGED <<now, saveVars, loadVars, envVars, files>>

\* keys(), values(), entries(), size(), isEmpty(): cleanupExpired, then read.
KeysCall ==
  /\ Running
  /\ UNCHANGED shard
  /\ LET st == StCleanupExpired(Store, now)
     IN /\ Commit(st)
        /\ last' = Last("keys", "", Undefined, TRUE, st.ev, Cardinality(DOMAIN st.data))
  /\ UNCHANGED <<now, saveVars, loadVars, envVars, files, tracked>>

\* BreezeDB.getTTL: the TTL manager's answer, no validation, no change.
GetTTLCall(k) ==
  /\ Running
  /\ UNCHANGED shard
  /\ last' = Last("getTTL", k, Undefined, TRUE, << >>, 0)
               @@ [result |-> GetTTL(ttlData, k, now)]
  /\ UNCHANGED <<now, storeVars, saveVars, loadVars, envVars, files, tracked>>

\* keys(), values(), entries(), size() and isEmpty(), one by one.  What each
\* returns over the map d: the set of keys, the values with their
\* multiplicities, the entries, the number of entries, whether there is none.
QueryOps == {"keys", "values", "entries", "size", "isEmpty"}

QueryResult(op, d) ==
  CASE op = "keys" -> DOMAIN d
    [] op = "values" -> [v \in {d[k] : k \in DOMAIN d} |->
                          Cardinality({k \in DOMAIN d : d[k] = v})]
    [] op = "entries" -> d
    [] op = "size" -> Cardinality(DOMAIN d)
    [] op = "isEmpty" -> Cardinality(DOMAIN d) = 0

\* The ghost record keeps what the call returned and the keys the 'expired'
\* notification listed (removeExpiredKeys emits the list it was given).
Query(op) ==
  /\ Running
  /\ UNCHANGED shard
  /\ \E st \in {StCleanupExpired(Store, now)} :
       /\ Commit(st)
       /\ last' = Last(op, "", Undefined, TRUE, st.ev, 0)
                    @@ [result |-> QueryResult(op, st.data),
                        listed |-> IF "expired" \in {st.ev[i] : i \in DOMAIN st.ev}
                                   THEN GetExpiredKeys(ttlData, now) ELSE {}]
  /\ UNCHANGED <<now, saveVars, loadVars, envVars, files, tracked>>

\* ------------------------------------------- PersistenceManager.save (async)
\* A save() that never queues (C4's fault): every call starts a write.
NeverWriting == FALSE

\* if (this.isWriting): the request is queued instead of starting a write.
AlreadyWriting == isWriting

\* The callbacks the finally block calls: every queued resolver, whether the
\* write succeeded or threw.
QueuedResolved(ok, queued) == queued

\* A flag cleared only at the end of the try block (C37's fault).
WritingLeftOnFailure(ok) == ~ok

\* finally { this.isWriting = false; ... }: on both ways out of the try.
WritingAfterFinally(ok) == FALSE

\* A backup taken from the temp file instead of the main file (C8's fault).
BackupCopyOfTemp(fs) == CopyFile(fs, TempPath, BackupPath)

\* Create backup if original exists.
BackupCopy(fs) == CopyFile(fs, FilePath, BackupPath)

\* BreezeDB.save() up to the first await: snapshot the live TTL records, then
\* PersistenceManager.save either queues the caller or sets isWriting,
\* serializes and starts writing.
SaveStart(caller) ==
  IF AlreadyWriting
  THEN /\ writeQueue < MaxQueue
       /\ writeQueue' = writeQueue + 1
       /\ UNCHANGED <<isWriting, savePc, savePayload, writesInFlight, saveCaller>>
  ELSE /\ isWriting' = TRUE
       /\ saveCaller' = caller
       /\ savePc' = "write"
       /\ savePayload' =
            ProcessForStorage(Serialize(data, GetAllTTLData(ttlData, now), now), options)
       /\ writesInFlight' = writesInFlight + 1
       /\ UNCHANGED writeQueue

\* The finally block, then the continuations of BreezeDB.save(): the caller
\* of the write sets isDirty = false when it succeeded, every queued caller
\* sets it once resolved.
SaveEnd(ok) ==
  /\ isWriting' = WritingAfterFinally(ok)
  /\ writeQueue' = writeQueue - QueuedResolved(ok, writeQueue)
  /\ savePc' = "idle"
  /\ savePayload' = NoFile
  /\ writesInFlight' = writesInFlight - 1
  /\ saveCaller' = "none"
  /\ isDirty' = IF ok \/ QueuedResolved(ok, writeQueue) > 0 THEN FALSE ELSE isDirty

SaveAsync ==
  /\ Running
  /\ UNCHANGED shard
  /\ SaveStart("save")
  /\ last' = Last("save", "", Undefined, TRUE, << >>, 0)
  /\ UNCHANGED <<now, storeVars, loadVars, envVars, files, tracked>>

\* The auto-save timeout: clear the handle; if dirty,
\* this.save().catch(error => this.emit('error', error)).
AutoSaveFire ==
  /\ Running
  /\ UNCHANGED shard
  /\ timeouts > 0
  /\ timeouts' = timeouts - 1
  /\ autoSaveTimer' = "null"
  /\ IF isDirty THEN SaveStart("timer") ELSE UNCHANGED saveVars
  /\ last' = Last("autoSave", "", Undefined, isDirty, << >>, 0)
  /\ UNCHANGED <<now, data, ttlData, isDirty, loadVars, envVars, files, tracked>>

\* A write that serializes the store once the temp file is being written,
\* after the call was suspended (C29's fault).
SerializedAtWrite ==
  ProcessForStorage(Serialize(data, GetAllTTLData(ttlData, now), now), options)

\* fsp.writeFile(this.tempPath, processedData): the bytes made before the
\* first await.
WrittenBytes == savePayload

\* writeFile(tempPath) returned; existsSync(filePath) chooses the next step.
SaveWriteTemp ==
  /\ Running
  /\ UNCHANGED shard
  /\ savePc = "write"
  /\ files' = WriteFile(files, TempPath, WrittenBytes)
  /\ savePc' = IF Exists(files', FilePath) THEN "copy" ELSE "rename"
  /\ last' = Last("saveStep", "", Undefined, TRUE, << >>, 0)
  /\ UNCHANGED <<now, storeVars, loadVars, envVars, tracked,
                 isWriting, writeQueue, savePayload, writesInFlight, saveCaller>>

\* copyFile(filePath, backupPath) returned.
SaveCopyBackup ==
  /\ Running
  /\ UNCHANGED shard
  /\ savePc = "copy"
  /\ files' = BackupCopy(files)
  /\ savePc' = "rename"
  /\ last' = Last("saveStep", "", Undefined, TRUE, << >>, 0)
  /\ UNCHANGED <<now, storeVars, loadVars, envVars, tracked,
                 isWriting, writeQueue, savePayload, writesInFlight, saveCaller>>

\* rename(tempPath, filePath) returned: emit 'save', finally, resolve.
SaveRename ==
  /\ Running
  /\ UNCHANGED shard
  /\ savePc = "rename"
  /\ files' = Rename(files, TempPath, FilePath)
  /\ SaveEnd(TRUE)
  /\ last' = Last("saveDone", "", Undefined, TRUE, <<"save">>,
                  QueuedResolved(TRUE, writeQueue))
  /\ UNCHANGED <<now, data, ttlData, autoSaveTimer, timeouts, loadVars, envVars, tracked>>

\* The rejection of a write the auto-save timer started reaches the timer's
\* catch handler, which emits 'error'; with no subscriber that emit throws
\* and the rejection is left unhandled.
TimerErrorEscapes == saveCaller = "timer" /\ "error" \notin listeners

\* The awaited file operation rejected: catch (emit 'error', rethrow),
\* finally; then the caller's continuation.
SaveIOError ==
  /\ Running
  /\ UNCHANGED shard
  /\ savePc # "idle"
  /\ SaveEnd(FALSE)
  /\ last' = Last("saveDone", "", IF TimerErrorEscapes THEN Thrown ELSE Undefined, FALSE,
                  IF "error" \notin listeners THEN << >>
                  ELSE IF saveCaller = "timer" THEN <<"error", "error">>
                  ELSE <<"error">>,
                  QueuedResolved(FALSE, writeQueue))
  /\ UNCHANGED <<now, data, ttlData, autoSaveTimer, timeouts, loadVars, envVars, tracked,
                 files>>

\* ------------------------------------------------ PersistenceManager.saveSync
\* A saveSync() without the isWriting guard (C6's fault).
SyncNeverBlocked == FALSE

\* if (this.isWriting) throw, before the try block.
SyncBlocked == isWriting

\* The file steps of saveSync in the order the code makes them.
SyncSteps(fs) ==
  (IF Exists(fs, FilePath) THEN <<"backup">> ELSE << >>) \o <<"temp", "rename">>

RunStep(fs, step, payload) ==
  CASE step = "backup" -> BackupCopy(fs)
    [] step = "temp" -> WriteFile(fs, TempPath, payload)
    [] step = "rename" -> Rename(fs, TempPath, FilePath)

\* The process is killed in the middle of a step: a file being written is
\* left torn; a rename has either happened or not.
TearStep(fs, step) ==
  CASE step = "backup" -> [fs EXCEPT ![BackupPath] = Partial]
    [] step = "temp" -> [fs EXCEPT ![TempPath] = Partial]
    [] step = "rename" -> fs

RECURSIVE RunSteps(_, _, _, _)
RunSteps(fs, steps, n, payload) ==
  IF n = 0 THEN fs
  ELSE RunStep(RunSteps(fs, steps, n - 1, payload), steps[n], payload)

Outcomes == {"ok", "error", "crash", "torn"}

\* saveSync when not blocked.  n steps complete; then it returns ("ok", all
\* steps done), or step n+1 throws ("error"), or the process is killed
\* before ("crash") or in the middle of ("torn") step n+1.  ev lists, in
\* order, the file steps made and the events emitted.
SaveSyncRun(n, how) ==
  LET payload == ProcessForStorageSync(Serialize(data, GetAllTTLData(ttlData, now), now), options)
      steps == SyncSteps(files)
      done == RunSteps(files, steps, n, payload)
  IN [files |-> IF how = "torn" THEN TearStep(done, steps[n + 1]) ELSE done,
      ok |-> how = "ok",
      crashed |-> how \in {"crash", "torn"},
      ev |-> SubSeq(steps, 1, n)
               \o (IF how = "ok" THEN <<"save">>
                   ELSE IF how = "error" /\ "error" \in listeners THEN <<"error">>
                   ELSE << >>)]

SaveSyncCase(n, how) ==
  /\ n \in 0..Len(SyncSteps(files))
  /\ how \in Outcomes
  /\ (how = "ok") = (n = Len(SyncSteps(files)))

\* BreezeDB.saveSync()
SaveSync(n, how) ==
  /\ Running
  /\ UNCHANGED shard
  /\ IF SyncBlocked
     THEN /\ n = 0 /\ how = "error"
          /\ last' = Last("saveSync", "", Undefined, FALSE, << >>, 0)
          /\ UNCHANGED <<files, isDirty, crashed>>
     ELSE /\ SaveSyncCase(n, how)
          /\ LET r == SaveSyncRun(n, how)
             IN /\ files' = r.files
                /\ isDirty' = IF r.ok THEN FALSE ELSE isDirty
                /\ crashed' = r.crashed
                /\ last' = Last("saveSync", "", Undefined, r.ok, r.ev, 0)
  /\ UNCHANGED <<now, data, ttlData, autoSaveTimer, timeouts, loadVars, tracked,
                 cleanupInterval, listeners, hooks, options, constructed, dirExists,
                 isWriting, writeQueue, savePc, savePayload, writesInFlight, saveCaller>>

\* A timer left running (C14's fault).
KeepTimeout(timer) == timer

\* if (this.autoSaveTimer) clearTimeout(this.autoSaveTimer): the timeout is
\* cancelled, the field keeps the handle.
ClearTimeout(timer) == IF timer = "armed" THEN "cleared" ELSE timer

\* A cleanup that lets the failure of its saveSync out (C15's fault).
FlushErrorRaised == FALSE

\* try { this.saveSync() } catch (error) { console.error(...) }
FlushErrorCaught == TRUE

\* BreezeDB.close(): cleanup() (saveSync if dirty and no async write is in
\* flight, failure logged; clearTimeout; stopCleanup; detach the process
\* hooks), then removeAllListeners().  An exception leaving saveSync
\* uncaught would skip the rest.
Close(n, how) ==
  /\ Running
  /\ UNCHANGED shard
  /\ IF isDirty /\ ~isWriting
     THEN /\ SaveSyncCase(n, how)
          /\ LET r == SaveSyncRun(n, how)
             IN /\ files' = r.files
                /\ isDirty' = IF r.ok THEN FALSE ELSE isDirty
                /\ crashed' = r.crashed
                /\ last' = Last("close", "",
                                IF how = "error" /\ ~FlushErrorCaught
                                THEN Thrown ELSE Undefined,
                                r.ok, r.ev, 0)
     ELSE /\ n = 0 /\ how = "ok"
          /\ last' = Last("close", "", Undefined, TRUE, << >>, 0)
          /\ UNCHANGED <<files, isDirty, crashed>>
  /\ IF crashed' \/ last'.ret = Thrown
     THEN UNCHANGED <<autoSaveTimer, timeouts, cleanupInterval, hooks, listeners>>
     ELSE /\ autoSaveTimer' = ClearTimeout(autoSaveTimer)
          /\ timeouts' = IF autoSaveTimer = "armed" /\ autoSaveTimer' = "cleared"
                         THEN timeouts - 1 ELSE timeouts
          /\ cleanupInterval' = FALSE
          /\ hooks' = FALSE
          /\ listeners' = {}
  /\ UNCHANGED <<now, data, ttlData, loadVars, tracked, options, constructed,
                 dirExists, isWriting, writeQueue, savePc, savePayload, writesInFlight, saveCaller>>

\* --------------------------------------------------- load and loadSync
\* BreezeDB.loadSync()
LoadSync ==
  /\ Running
  /\ UNCHANGED shard
  /\ LET r == LoadSyncRec(files, options, listeners, 0)
         st == IF r.ok THEN StLoad(Store, r.result, now) ELSE Store
     IN /\ files' = r.files
        /\ Commit(st)
        /\ last' = Last("loadSync", "", Undefined, r.ok, r.ev \o st.ev, r.restores)
        /\ tracked' = IF r.ok THEN EmptyMap ELSE tracked
  /\ UNCHANGED <<now, saveVars, loadVars, envVars>>

\* The events of a load() that throws in its innermost call: that call emits
\* 'error' and rethrows, and each of the calls around it catches, emits
\* 'Backup file also corrupted', emits the error it caught first and rethrows.
\* Without a subscriber the first emit throws instead.
UnwindEvents(lst, depth) ==
  IF "error" \in lst THEN [i \in 1..(1 + 2 * depth) |-> "error"] ELSE << >>

\* BreezeDB.load() up to the first await of PersistenceManager.load(): with
\* no main file the empty result is returned and installed; otherwise
\* readFile is awaited.  One load() is in flight at a time.
Load ==
  /\ Running
  /\ UNCHANGED shard
  /\ loadPc = "idle"
  /\ IF ~Exists(files, FilePath)
     THEN /\ LET st == StLoad(Store, EmptyResult, now)
             IN /\ Commit(st)
                /\ last' = Last("load", "", Undefined, TRUE, st.ev, 0)
          /\ tracked' = EmptyMap
          /\ UNCHANGED loadVars
     ELSE /\ loadPc' = "read"
          /\ loadDepth' = 0
          /\ last' = Last("loadStep", "", Undefined, TRUE, << >>, 0)
          /\ UNCHANGED <<storeVars, tracked>>
  /\ UNCHANGED <<now, saveVars, envVars, files>>

\* readFile returned.  A readable file is deserialized, 'load' is emitted and
\* the result passes out through every enclosing call to BreezeDB.load(),
\* which installs it.  Otherwise the catch block: with a backup file, emit
\* 'error' and await copyFile(backupPath, filePath); without, emit and throw.
LoadRead ==
  /\ Running
  /\ UNCHANGED shard
  /\ loadPc = "read"
  /\ IF Loadable(files[FilePath], options)
     THEN /\ LET r == Deserialize(ProcessFromStorage(files[FilePath], options).text)
                 st == StLoad(Emit(Store, "load"), r, now)
             IN /\ Commit(st)
                /\ last' = Last("load", "", Undefined, TRUE, st.ev, loadDepth)
          /\ tracked' = EmptyMap
          /\ loadPc' = "idle"
          /\ loadDepth' = 0
     ELSE IF BackupExists(files) /\ "error" \in listeners
     THEN /\ loadPc' = "restore"
          /\ last' = Last("loadStep", "", Undefined, TRUE, <<"error">>, loadDepth)
          /\ UNCHANGED <<storeVars, tracked, loadDepth>>
     ELSE /\ loadPc' = "idle"
          /\ loadDepth' = 0
          /\ last' = Last("load", "", Undefined, FALSE,
                          UnwindEvents(listeners, loadDepth), loadDepth)
          /\ UNCHANGED <<storeVars, tracked>>
  /\ UNCHANGED <<now, saveVars, envVars, files>>

\* copyFile(backupPath, filePath) returned; the catch block calls load()
\* again, which finds the main file and awaits readFile.  The nesting grows
\* without limit; the model follows it MaxStack deep.
LoadRestore ==
  /\ Running
  /\ UNCHANGED shard
  /\ loadPc = "restore"
  /\ loadDepth < MaxStack
  /\ files' = CopyFile(files, BackupPath, FilePath)
  /\ loadDepth' = loadDepth + 1
  /\ loadPc' = "read"
  /\ last' = Last("loadStep", "", Undefined, TRUE, << >>, loadDepth + 1)
  /\ UNCHANGED <<now, storeVars, saveVars, envVars, tracked>>

\* ------------------------------------------------------------------- crash
\* The process is killed between two steps.  A file an awaited writeFile or
\* copyFile is writing may be left torn: the temp or backup file of the write
\* in flight (tornSave), the main file a load() is restoring (tornLoad).
Crash(tornSave, tornLoad) ==
  /\ Running
  /\ UNCHANGED shard
  /\ crashed' = TRUE
  /\ tornSave => savePc \in {"write", "copy"}
  /\ tornLoad => loadPc = "restore"
  /\ LET f1 == IF tornSave
               THEN TearStep(files, IF savePc = "write" THEN "temp" ELSE "backup")
               ELSE files
     IN files' = IF tornLoad THEN [f1 EXCEPT ![FilePath] = Partial] ELSE f1
  /\ last' = Last("crash", "", Undefined, tornLoad, << >>, 0)
  /\ UNCHANGED <<now, storeVars, saveVars, loadVars, tracked,
                 cleanupInterval, listeners, hooks, options, constructed,
                 dirExists>>

\* ----------------------------------------------------------- specifications
\* The in-memory store, the clock, the sweep timer and the synchronous
\* persistence calls, with file operations that succeed.
NextStore ==
  \/ Tick
  \/ SweepTimer
  \/ OnError
  \/ \E k \in Keys, v \in Values, ttl \in {NullTTL} \cup {NumTTL(n) : n \in TTLs} :
       Set(k, v, ttl)
  \/ \E k \in Keys : Get(k)
  \/ \E k \in Keys : Has(k)
  \/ \E k \in Keys : Delete(k)
  \/ Clear
  \/ \E k \in Keys, ttl \in TTLs : SetTTL(k, NumTTL(ttl))
  \/ \E k \in Keys : ClearTTL(k)
  \/ KeysCall
  \/ \E n \in 0..3 : SaveSync(n, "ok")
  \/ LoadSync

SpecStore == InitWith({DefaultOptions, CodecOptions}) /\ [][NextStore]_vars

\* The write protocol: asynchronous and synchronous saves of a store whose
\* entries carry no TTL, with failing file operations and crashes.
NextSave ==
  \/ OnError
  \/ \E k \in Keys, v \in Values : Set(k, v, NullTTL)
  \/ \E k \in Keys : Delete(k)
  \/ SaveAsync
  \/ SaveWriteTemp
  \/ SaveCopyBackup
  \/ SaveRename
  \/ SaveIOError
  \/ \E n \in 0..3, how \in Outcomes : SaveSync(n, how)
  \/ \E n \in 0..3, how \in Outcomes : Close(n, how)
  \/ LoadSync
  \/ \E tornSave \in BOOLEAN : Crash(tornSave, FALSE)

SpecSave == InitWith({PlainOptions}) /\ [][NextSave]_vars

\* The load protocol.
NextLoad ==
  \/ OnError
  \/ \E k \in Keys, v \in Values : Set(k, v, NullTTL)
  \/ \E n \in 0..3, how \in Outcomes : SaveSync(n, how)
  \/ \E n \in 0..3, how \in Outcomes : Close(n, how)
  \/ LoadSync
  \/ Load
  \/ LoadRead
  \/ LoadRestore
  \/ \E tornLoad \in BOOLEAN : Crash(FALSE, tornLoad)

SpecLoad == InitWith({DefaultOptions, CodecOptions}) /\ [][NextLoad]_vars

\* The arguments callers pass, well-formed or not.
KeyArgs == Keys \cup {"", NotAString}
TTLArgs ==
  {NullTTL, NaNTTL, InfiniteTTL, StringTTL} \cup {NumTTL(n) : n \in TTLs \cup {0, -1}}

SetOp(k, v, ttl) ==
  [isObject |-> TRUE, type |-> "set", key |-> k, value |-> v, ttl |-> ttl]
DeleteOp(k) ==
  [isObject |-> TRUE, type |-> "delete", key |-> k, value |-> Undefined, ttl |-> NullTTL]
WellFormedOps ==
  {SetOp("a", "v1", NullTTL), SetOp("a", "v2", NumTTL(1)), DeleteOp("a")}
MalformedOps ==
  {SetOp("", "v1", NullTTL), SetOp("a", "v1", NumTTL(0)), DeleteOp(NotAString),
   [SetOp("a", "v1", NullTTL) EXCEPT !.type = "update"],
   [SetOp("a", "v1", NullTTL) EXCEPT !.isObject = FALSE]}
WellFormedLists(n) == UNION {[1..m -> WellFormedOps] : m \in 0..n}

\* Not an array; a well-formed list; a well-formed list followed by one
\* malformed entry.
BatchArgs ==
  {[isArray |-> FALSE, items |-> << >>]}
    \cup {[isArray |-> TRUE, items |-> items] : items \in WellFormedLists(MaxBatch)}
    \cup {[isArray |-> TRUE, items |-> Append(items, op)] :
            items \in WellFormedLists(MaxBatch - 1), op \in MalformedOps}

\* The in-memory store under calls with well-formed and malformed arguments.
NextOps ==
  \/ Tick
  \/ SweepTimer
  \/ \E k \in KeyArgs, v \in Values, ttl \in TTLArgs : Set(k, v, ttl)
  \/ \E k \in KeyArgs : Get(k)
  \/ \E k \in KeyArgs : Has(k)
  \/ \E k \in KeyArgs : Delete(k)
  \/ Clear
  \/ \E k \in KeyArgs, ttl \in TTLArgs : SetTTL(k, ttl)
  \/ \E k \in Keys : ClearTTL(k)
  \/ KeysCall
  \/ \E arg \in BatchArgs : Batch(arg)

\* The store starts empty or from a document on disk; the files play no part.
InitOps ==
  /\ InitWith({DefaultOptions})
  /\ files[FilePath] # Corrupt
  /\ files[BackupPath] = NoFile

SpecOps == InitOps /\ [][NextOps]_vars

\* The auto-save timer: mutations arm it, it starts asynchronous writes,
\* and those succeed or fail.
NextAuto ==
  \/ OnError
  \/ \E k \in Keys, v \in Values : Set(k, v, NullTTL)
  \/ \E k \in Keys : Delete(k)
  \/ AutoSaveFire
  \/ SaveAsync
  \/ SaveWriteTemp
  \/ SaveCopyBackup
  \/ SaveRename
  \/ SaveIOError

SpecAuto == InitWith({DefaultOptions}) /\ [][NextAuto]_vars

\* Every action.
\* Construction: what the process finds on disk, the constructor with valid
\* and invalid options, and the calls on the store it returns.
InitCtor ==
  \E d \in BOOLEAN :
  \E m \in {NoFile, Corrupt, DiskDoc("v1", DefaultOptions), DiskDoc("v1", CodecOptions)} :
    /\ d \/ m = NoFile
    /\ dirExists = d
    /\ files = [p \in Paths |-> IF p = FilePath THEN m ELSE NoFile]
    /\ constructed = FALSE
    /\ options = Undefined
    /\ now = MsPerSecond
    /\ Commit_Init(EmptyStore)
    /\ cleanupInterval = FALSE
    /\ listeners = {}
    /\ hooks = FALSE
    /\ isWriting = FALSE
    /\ writeQueue = 0
    /\ savePc = "idle"
    /\ savePayload = NoFile
    /\ loadPc = "idle"
    /\ loadDepth = 0
    /\ crashed = FALSE
    /\ writesInFlight = 0
    /\ saveCaller = "none"
    /\ last = Last("none", "", Undefined, TRUE, << >>, 0)
    /\ tracked = EmptyMap
    /\ shard = ShardOff

NextCtor ==
  \/ \E opts \in {DefaultOptions, CodecOptions, KeylessOptions} : New(opts)
  \/ Tick
  \/ SweepTimer
  \/ \E k \in Keys, v \in Values, ttl \in {NullTTL} \cup {NumTTL(n) : n \in TTLs} :
       Set(k, v, ttl)
  \/ \E k \in Keys : Delete(k)
  \/ \E n \in 0..3 : SaveSync(n, "ok")
  \/ \E n \in 0..3 : Close(n, "ok")

SpecCtor == InitCtor /\ [][NextCtor]_vars

\* The codec: the four combinations of compression and encryption, the
\* synchronous and the asynchronous save and load, file operations that
\* succeed.
NextCodec ==
  \/ \E k \in Keys, v \in Values : Set(k, v, NullTTL)
  \/ \E k \in Keys : Delete(k)
  \/ \E n \in 0..3 : SaveSync(n, "ok")
  \/ SaveAsync
  \/ SaveWriteTemp
  \/ SaveCopyBackup
  \/ SaveRename
  \/ LoadSync
  \/ Load
  \/ LoadRead

SpecCodec == InitWith(CodecChoices) /\ [][NextCodec]_vars

\* The in-memory store over two keys: the clock, the sweep timer and every
\* synchronous call that reads or changes the entry map and the TTL index.
MemKeys == {"a", "b"}

NextMem ==
  \/ Tick
  \/ SweepTimer
  \/ \E k \in MemKeys, v \in Values, ttl \in {NullTTL} \cup {NumTTL(n) : n \in TTLs} :
       Set(k, v, ttl)
  \/ \E k \in MemKeys : Get(k)
  \/ \E k \in MemKeys : Has(k)
  \/ \E k \in MemKeys : Delete(k)
  \/ \E k \in MemKeys, ttl \in TTLs : SetTTL(k, NumTTL(ttl))
  \/ \E k \in MemKeys : ClearTTL(k)
  \/ \E k \in MemKeys : GetTTLCall(k)
  \/ Clear
  \/ \E op \in QueryOps : Query(op)

SpecMem == InitOps /\ [][NextMem]_vars

\* The auto-save timer with auto-save on and off: mutations, the timeout, the
\* write it starts, and close().
InitTimer ==
  /\ InitWith({DefaultOptions, PlainOptions})
  /\ files[FilePath] # Corrupt
  /\ files[BackupPath] = NoFile

NextTimer ==
  \/ Tick
  \/ \E k \in Keys, v \in Values : Set(k, v, NullTTL)
  \/ \E k \in Keys : Delete(k)
  \/ AutoSaveFire
  \/ SaveWriteTemp
  \/ SaveCopyBackup
  \/ SaveRename
  \/ \E n \in 0..3 : Close(n, "ok")

SpecTimer == InitTimer /\ [][NextTimer]_vars

\* Saves of a store that changes while they run: the clock, mutations with
\* and without a TTL, save() step by step, saveSync().
InitSnap ==
  /\ InitWith({PlainOptions})
  /\ files[FilePath] # Corrupt
  /\ files[BackupPath] = NoFile

NextSnap ==
  \/ Tick
  \/ \E k \in Keys, ttl \in {NullTTL} \cup {NumTTL(n) : n \in TTLs} : Set(k, "v2", ttl)
  \/ \E k \in Keys : Delete(k)
  \/ SaveAsync
  \/ SaveWriteTemp
  \/ SaveCopyBackup
  \/ SaveRename
  \/ \E n \in 0..3 : SaveSync(n, "ok")

SpecSnap == InitSnap /\ [][NextSnap]_vars

\* The TTL index against the entry map, in memory and on disk: the calls
\* that change either, the sweep timer, the saves and a reload.  One save()
\* is made at a time, and saveSync() and loadSync() are called between
\* writes; the store is changed while a write is in flight.
NextIndex ==
  \/ Tick
  \/ SweepTimer
  \/ \E k \in Keys, ttl \in {NullTTL} \cup {NumTTL(n) : n \in TTLs} : Set(k, "v2", ttl)
  \/ \E k \in Keys : Delete(k)
  \/ \E k \in Keys, ttl \in TTLs : SetTTL(k, NumTTL(ttl))
  \/ \E k \in Keys : ClearTTL(k)
  \/ Query("size")
  \/ (~isWriting /\ SaveAsync)
  \/ SaveWriteTemp
  \/ SaveCopyBackup
  \/ SaveRename
  \/ (~isWriting /\ \E n \in 0..3 : SaveSync(n, "ok"))
  \/ (~isWriting /\ LoadSync)

SpecIndex == InitSnap /\ [][NextIndex]_vars

\* One instance whose asynchronous writes always come back: every awaited
\* file call of a write in flight returns, with a result or with an error.
\* The file calls of saveSync() succeed, so a saveSync() that fails here was
\* rejected for the write in flight.
NextSettle ==
  \/ \E k \in Keys : Set(k, "v2", NullTTL)
  \/ \E k \in Keys : Delete(k)
  \/ SaveAsync
  \/ SaveWriteTemp
  \/ SaveCopyBackup
  \/ SaveRename
  \/ SaveIOError
  \/ \E n \in 0..3 : SaveSync(n, "ok")
  \/ (isWriting /\ SaveSync(0, "error"))

FileCallReturns == SaveWriteTemp \/ SaveCopyBackup \/ SaveRename \/ SaveIOError

SpecSettle == InitSnap /\ [][NextSettle]_vars /\ WF_vars(FileCallReturns)


\* ------------------------------------------------------- sharded prototype
\* The earlier BreezeDB class: keys spread over node directories by
\* a consistent-hash ring, every write queued in pendingWrites and flushed by
\* _persistToDisk into <baseDir>/<node>/data.json.
MaxOps == 3
MaxFails == 1

Nodes == <<"node1", "node2">>
ShardKeys == {"a"}
ShardValues == {"v1", "v2"}
Null == "null"
NotIssued == "none"

\* sortedKeys as the physical nodes of the virtual nodes in hash order, two
\* virtual nodes a node.
Rings ==
  { <<"node1", "node2", "node1", "node2">>,
    <<"node1", "node1", "node2", "node2">>,
    <<"node2", "node1", "node1", "node2">> }
ReplicationFactors == {1, 2}

Json(obj) == [kind |-> "json", obj |-> obj]

\* Object.assign(target, source)
ObjectAssign(target, source) ==
  [k \in DOMAIN target \cup DOMAIN source |->
     IF k \in DOMAIN source THEN source[k] ELSE target[k]]

\* delete obj[key]
DeleteProp(obj, key) == [k \in DOMAIN obj \ {key} |-> obj[k]]

\* ConsistentHashRing.getPreferenceList: from the first virtual node at or
\* after the key's hash (startIndex, wrapping), the first n distinct physical
\* nodes along the ring.
RECURSIVE PreferenceFrom(_, _, _, _, _)
PreferenceFrom(ring, startIndex, n, i, list) ==
  IF i >= Len(ring) \/ Len(list) >= n THEN list
  ELSE LET node == ring[((startIndex + i) % Len(ring)) + 1]
       IN PreferenceFrom(ring, startIndex, n, i + 1,
                         IF \E j \in DOMAIN list : list[j] = node
                         THEN list ELSE Append(list, node))

GetPreferenceList(s, key) ==
  PreferenceFrom(s.ring, s.startIndex[key], s.replicationFactor, 0, << >>)

\* #initialize: Object.assign(inMemoryIndex, nodeData) for the nodes in order;
\* the first missing file ends the loop (ENOENT is swallowed).
RECURSIVE InitializeFrom(_, _, _)
InitializeFrom(fs, i, index) ==
  IF i > Len(Nodes) \/ fs[Nodes[i]] = NoFile THEN index
  ELSE InitializeFrom(fs, i + 1, ObjectAssign(index, fs[Nodes[i]].obj))

Initialize(fs) == InitializeFrom(fs, 1, EmptyMap)

\* The first loop of _persistToDisk, on memory: each write of the batch in
\* turn sets or deletes its key in inMemoryIndex.
RECURSIVE ApplyToIndex(_, _)
ApplyToIndex(index, batch) ==
  IF batch = << >> THEN index
  ELSE LET w == Head(batch)
       IN ApplyToIndex(IF w.value # Null
                       THEN ObjectAssign(index, w.key :> w.value)
                       ELSE DeleteProp(index, w.key),
                       Tail(batch))

\* The first loop of _persistToDisk, nodeData[node]: the node's writes of the
\* batch in turn, removals as null.
RECURSIVE NodeData(_, _, _)
NodeData(batch, node, acc) ==
  IF batch = << >> THEN acc
  ELSE LET w == Head(batch)
       IN NodeData(Tail(batch), node,
                   IF w.node = node THEN ObjectAssign(acc, w.key :> w.value) ELSE acc)

\* The body of the second loop: read the node file ('{}' when it cannot be
\* read), assign the node's writes, drop the null properties, write it back.
NodeJson(file, nodeData) ==
  LET merged == ObjectAssign(IF file = NoFile THEN EmptyMap ELSE file.obj, nodeData)
  IN Json([k \in {j \in DOMAIN merged : merged[j] # Null} |-> merged[k]])

\* this.pendingWrites.push(...batch)
Requeue(pending, batch) == pending \o batch

\* if (this.inMemoryIndex.hasOwnProperty(key))
HasOwnProperty(s, key) == key \in DOMAIN s.inMemoryIndex

\* _persistToDisk() up to its first await: take the whole queue as the batch
\* and apply it to memory.
PersistToDisk(s) ==
  IF s.isWriting \/ s.pendingWrites = << >> THEN s
  ELSE [s EXCEPT !.isWriting = TRUE,
                 !.batch = s.pendingWrites,
                 !.pendingWrites = << >>,
                 !.inMemoryIndex = ApplyToIndex(s.inMemoryIndex, s.pendingWrites),
                 !.pos = 1,
                 !.persists = @ + 1]

\* #set(key, value, node)
SetOnNode(s, key, value, node) ==
  LET s1 == [s EXCEPT !.inMemoryIndex = ObjectAssign(@, key :> value),
                      !.pendingWrites =
                         Append(@, [key |-> key, value |-> value, node |-> node])]
  IN IF ~s1.isWriting THEN PersistToDisk(s1) ELSE s1

\* #remove(key, node)
RemoveOnNode(s, key, node) ==
  IF HasOwnProperty(s, key)
  THEN LET s1 == [s EXCEPT !.inMemoryIndex = DeleteProp(@, key),
                           !.pendingWrites =
                              Append(@, [key |-> key, value |-> Null, node |-> node])]
       IN IF ~s1.isWriting THEN PersistToDisk(s1) ELSE s1
  ELSE s

\* for (const { physicalNode } of preferenceList) this.#set(...)
RECURSIVE SetOnNodes(_, _, _, _)
SetOnNodes(s, key, value, list) ==
  IF list = << >> THEN s
  ELSE SetOnNodes(SetOnNode(s, key, value, Head(list)), key, value, Tail(list))

\* for (const { physicalNode } of preferenceList) this.#remove(...)
RECURSIVE RemoveOnNodes(_, _, _)
RemoveOnNodes(s, key, list) ==
  IF list = << >> THEN s
  ELSE RemoveOnNodes(RemoveOnNode(s, key, Head(list)), key, Tail(list))

\* The end of _persistToDisk: isWriting = false, and the next persist is
\* started at once when writes are waiting.
PersistEnd(s) ==
  PersistToDisk([s EXCEPT !.isWriting = FALSE, !.batch = << >>, !.pos = 0,
                          !.persists = @ - 1])

\* new BreezeDB(dir, nodes, 2, replicationFactor) once initializePromise has
\* resolved; the key hashes to position startIndex of the ring.
ShardNew(ring, startIndex, replicationFactor, fs) ==
  [built |-> TRUE,
   ring |-> ring,
   startIndex |-> startIndex,
   replicationFactor |-> replicationFactor,
   inMemoryIndex |-> Initialize(fs),
   pendingWrites |-> << >>,
   isWriting |-> FALSE,
   batch |-> << >>,
   pos |-> 0,
   files |-> fs,
   persists |-> 0,
   issued |-> [k \in ShardKeys |-> NotIssued],
   calls |-> 0,
   fails |-> 0]

\* set(key, value), after #waitForInitialization.
ShardSet(key, value) ==
  /\ shard.built
  /\ shard.calls < MaxOps
  /\ shard' = [SetOnNodes(shard, key, value, GetPreferenceList(shard, key))
                 EXCEPT !.issued[key] = value, !.calls = @ + 1]
  /\ UNCHANGED coreVars

\* remove(key), after #waitForInitialization.
ShardRemove(key) ==
  /\ shard.built
  /\ shard.calls < MaxOps
  /\ shard' = [RemoveOnNodes(shard, key, GetPreferenceList(shard, key))
                 EXCEPT !.issued[key] = Null, !.calls = @ + 1]
  /\ UNCHANGED coreVars

\* One turn of the second loop of _persistToDisk: the file of node
\* this.nodes[pos] is read and written back. After the last node the persist
\* ends.
PersistNode ==
  /\ shard.built
  /\ shard.isWriting
  /\ LET node == Nodes[shard.pos]
         written == [shard EXCEPT !.files[node] =
                        NodeJson(@, NodeData(shard.batch, node, EmptyMap))]
     IN shard' = IF shard.pos = Len(Nodes) THEN PersistEnd(written)
                 ELSE [written EXCEPT !.pos = @ + 1]
  /\ UNCHANGED coreVars

\* The write of node this.nodes[pos] rejects: the catch block re-queues the
\* batch, then the persist ends.
PersistFails ==
  /\ shard.built
  /\ shard.isWriting
  /\ shard.fails < MaxFails
  /\ shard' = PersistEnd([shard EXCEPT
                            !.pendingWrites = Requeue(@, shard.batch),
                            !.fails = @ + 1])
  /\ UNCHANGED coreVars

\* The prototype alone: the document store is never constructed.
InitShard ==
  /\ \E ring \in Rings, replicationFactor \in ReplicationFactors :
     \E startIndex \in [ShardKeys -> 0..(Len(ring) - 1)] :
       shard = ShardNew(ring, startIndex, replicationFactor, [n \in {Nodes[i] : i \in DOMAIN Nodes} |-> NoFile])
  /\ dirExists = TRUE
  /\ files = [p \in Paths |-> NoFile]
  /\ constructed = FALSE
  /\ options = Undefined
  /\ now = MsPerSecond
  /\ Commit_Init(EmptyStore)
  /\ cleanupInterval = FALSE
  /\ listeners = {}
  /\ hooks = FALSE
  /\ isWriting = FALSE
  /\ writeQueue = 0
  /\ savePc = "idle"
  /\ savePayload = NoFile
  /\ loadPc = "idle"
  /\ loadDepth = 0
  /\ crashed = FALSE
  /\ writesInFlight = 0
  /\ saveCaller = "none"
  /\ last = Last("none", "", Undefined, TRUE, << >>, 0)
  /\ tracked = EmptyMap

NextShard ==
  \/ \E key \in ShardKeys, value \in ShardValues : ShardSet(key, value)
  \/ \E key \in ShardKeys : ShardRemove(key)
  \/ PersistNode
  \/ PersistFails

SpecShard == InitShard /\ [][NextShard]_vars

Next ==
  \/ NextShard
  \/ NextSettle
  \/ NextMem
  \/ NextIndex
  \/ NextSnap
  \/ NextTimer
  \/ NextCtor
  \/ NextCodec
  \/ NextOps
  \/ NextAuto
  \/ NextStore
  \/ NextSave
  \/ NextLoad
  \/ AutoSaveFire

Spec == Init /\ [][Next]_vars

\* ------------------------------------------------------------------ claims
\* What a fresh instance over the current files holds once constructed.
FreshLoad ==
  LET r == LoadSyncRec(files, options, {}, 0)
  IN [ok |-> r.ok, st |-> StLoad(EmptyStore, r.result, now)]

\* The entries of the store that have not expired.
LiveData ==
  [k \in {x \in DOMAIN data : ~IsExpired(ttlData, x, now)} |-> data[k]]

\* C1: after set(k, v, ttl), and until k is set, deleted, reloaded or given
\* another TTL, get(k) returns v and has(k) is true before the recorded expiry;
\* from the expiry on get(k) returns undefined, has(k) is false and k is not
\* in keys(), whatever calls and timer firings came in between.
C1_ExpiryCorrectness ==
  \A k \in DOMAIN tracked :
    IF now < tracked[k].exp
    THEN GetResult(k) = tracked[k].val /\ HasResult(k)
    ELSE GetResult(k) = Undefined /\ ~HasResult(k) /\ k \notin KeysResult

\* C2: right after a successful saveSync(), a fresh instance loading the
\* file holds exactly the saving instance's non-expired entries and the expiry
\* instants of its non-expired TTL records.
C2_RoundTrip ==
  (last.op = "saveSync" /\ last.ok) =>
    /\ FreshLoad.ok
    /\ FreshLoad.st.data = LiveData
    /\ FreshLoad.st.ttl = GetAllTTLData(ttlData, now)

\* The main file exists and cannot be read back; the backup file can.
MainCorruptBackupValid ==
  /\ Exists(files, FilePath)
  /\ ~Loadable(files[FilePath], options)
  /\ Loadable(files[BackupPath], options)

\* What loading the backup file's document installs in the store.
BackupContent ==
  StLoad(EmptyStore, Deserialize(ProcessFromStorage(files[BackupPath], options).text), now).data

\* C3: a loadSync() or load() that finds the main file corrupted and a valid
\* document in the backup succeeds, installs the backup's content and leaves
\* the main file equal to the backup, with or without an 'error' subscriber.
C3_CorruptionRecovery ==
  [][(last'.op \in {"loadSync", "load"} /\ MainCorruptBackupValid) =>
       /\ last'.ok
       /\ data' = BackupContent
       /\ files'[FilePath] = files[BackupPath]]_vars

C5_QueuedObserveOutcome ==
  (last.op = "saveDone" /\ ~last.ok) => last.n = 0

\* C6: a saveSync() called while an asynchronous write is in flight fails at
\* once, is not queued, touches no file and leaves the write in flight as it
\* was.
C6_SyncSaveRejected ==
  [][(isWriting /\ last'.op = "saveSync") =>
       /\ ~last'.ok
       /\ last'.ev = << >>
       /\ UNCHANGED <<files, saveVars, storeVars, crashed>>]_vars

C6_Witness ==
  last.op = "saveSync" /\ ~last.ok /\ isWriting /\ savePc = "copy"

\* The document a write sequence is putting in place: the payload of the
\* asynchronous write in flight, or what saveSync serializes.
NewDocument(op) ==
  IF op = "saveSync"
  THEN ProcessForStorage(Serialize(data, GetAllTTLData(ttlData, now), now), options)
  ELSE savePayload

\* C7: every step of a write sequence, a crash inside it included, leaves the
\* main file as it was or holding the complete new document; only the
\* successful end of the sequence changes it, and it is never torn.
C7_CrashSafety ==
  /\ [](files[FilePath] # Partial)
  /\ [][(last'.op \in {"saveStep", "saveDone", "saveSync", "crash"}) =>
          /\ files'[FilePath] \in {files[FilePath], NewDocument(last'.op)}
          /\ (crashed' \/ ~last'.ok \/ last'.op = "saveStep") =>
               files'[FilePath] = files[FilePath]]_vars

C7_Witness ==
  /\ crashed
  /\ savePc = "rename"
  /\ files[TempPath] = savePayload
  /\ Exists(files, FilePath)
  /\ files[FilePath] # savePayload

\* C8: a successful save that found a main file leaves in the backup file
\* the content the main file had just before that save replaced it.
C8_BackupIsPrevious ==
  [][(last'.op \in {"saveDone", "saveSync"} /\ last'.ok /\ Exists(files, FilePath)) =>
       files'[BackupPath] = files[FilePath]]_vars

C8_Witness ==
  /\ last.op \in {"saveDone", "saveSync"}
  /\ last.ok
  /\ files[BackupPath].kind = "bytes"
  /\ files[FilePath].kind = "bytes"
  /\ files[BackupPath] # files[FilePath]

\* C9: in neither variant does the backup copy come before the temp write:
\* the asynchronous write reaches its copy step with the payload in the temp
\* file, and the file steps of a saveSync() never list the backup copy ahead
\* of the temp write.
C9_WriteOrder ==
  /\ savePc = "copy" => files[TempPath] = savePayload
  /\ last.op = "saveSync" =>
       \A i, j \in DOMAIN last.ev :
         (last.ev[i] = "backup" /\ last.ev[j] = "temp") => j < i

\* C10: a load restores the backup and retries at most once.
C10_BoundedRecovery ==
  /\ loadDepth <= 1
  /\ last.op \in {"load", "loadSync"} => last.n <= 1

\* The events of a sequence, as a set.
Emitted(ev) == {ev[i] : i \in DOMAIN ev}

\* C11: a load that finds no main file succeeds with an empty document,
\* emits no 'error', leaves the store empty and the files as they were,
\* with or without a backup file; so does the load of the constructor.
C11_LoadMissingMain ==
  /\ []((last.op = "new" /\ files[FilePath] = NoFile) =>
          (last.ok /\ data = EmptyMap /\ ttlData = EmptyMap))
  /\ [][(last'.op \in {"load", "loadSync"} /\ files[FilePath] = NoFile) =>
          /\ last'.ok
          /\ "error" \notin Emitted(last'.ev)
          /\ data' = EmptyMap
          /\ ttlData' = EmptyMap
          /\ files' = files]_vars

C11_Witness ==
  /\ last.op \in {"load", "loadSync"}
  /\ last.ok
  /\ files[FilePath] = NoFile
  /\ files[BackupPath] # NoFile
  /\ data = EmptyMap
  /\ isDirty

\* C12: a load that cannot read the main file and finds no backup file
\* fails, after telling the 'error' subscriber (if any) once, without
\* restoring or retrying, and changes neither the files nor the store.
C12_LoadFailsWithoutBackup ==
  [][(/\ last'.op \in {"load", "loadSync"}
      /\ files[FilePath] # NoFile
      /\ ~Loadable(files[FilePath], options)
      /\ files[BackupPath] = NoFile) =>
       /\ ~last'.ok
       /\ last'.n = 0
       /\ last'.ev = (IF "error" \in listeners THEN <<"error">> ELSE << >>)
       /\ files' = files
       /\ UNCHANGED storeVars]_vars

C12_Witness ==
  /\ last.op \in {"load", "loadSync"}
  /\ ~last.ok
  /\ files[FilePath] = Corrupt
  /\ files[BackupPath] = NoFile
  /\ last.ev = <<"error">>
  /\ data # EmptyMap

\* The entries a load of the main file gives.
DiskData(fs) ==
  Deserialize(ProcessFromStorage(fs[FilePath], options).text).data

\* C13: a close() of a dirty store whose file operations succeed leaves on
\* disk the entries held in memory: at once when no asynchronous write is in
\* flight, and, when one is, as soon as that write has completed.
C13_CloseFlushes ==
  [][(\/ last'.op = "close" /\ last'.ok /\ isDirty /\ ~isWriting
      \/ last.op = "close" /\ isDirty /\ last'.op = "saveDone" /\ last'.ok) =>
       /\ Loadable(files'[FilePath], options)
       /\ DiskData(files') = data']_vars

C15_CloseNeverThrows ==
  [][(last'.op = "close" /\ ~crashed') =>
       /\ last'.ret # Thrown
       /\ ~last'.ok =>
            /\ isDirty'
            /\ ClearTimeout(autoSaveTimer') = autoSaveTimer'
            /\ <<cleanupInterval', hooks', listeners'>> = <<FALSE, FALSE, {}>>]_vars

C15_Witness ==
  /\ last.op = "close"
  /\ ~last.ok
  /\ last.ret = Undefined
  /\ ~crashed
  /\ isDirty
  /\ listeners = {}
  /\ ~hooks

\* The keys and ttls a caller must not pass.
MalformedKeys == {"", NotAString}
MalformedTTLs == {NumTTL(0), NumTTL(-1), NaNTTL, InfiniteTTL, StringTTL}

\* C16: a set with a malformed key or ttl, and a get, has or delete with a
\* malformed key, throws, emits nothing and leaves the entries, the TTL
\* index, the dirty flag and the auto-save timer as they were.
C16_MalformedCallsChangeNothing ==
  [][(\/ last'.op \in {"set", "get", "has", "delete"} /\ last'.key \in MalformedKeys
      \/ last'.op = "set" /\ last'.ttl \in MalformedTTLs) =>
       /\ last'.ret = Thrown
       /\ last'.ev = << >>
       /\ UNCHANGED <<data, ttlData, isDirty, autoSaveTimer>>]_vars

C16_Witness ==
  /\ last.op = "set"
  /\ last.ret = Thrown
  /\ last.key = "a"
  /\ last.ttl = NumTTL(0)
  /\ data # EmptyMap
  /\ ~isDirty

\* C17: a batch that throws has applied none of its operations.
C17_BatchAllOrNothing ==
  [][(last'.op = "batch" /\ last'.ret = Thrown) =>
       UNCHANGED <<data, ttlData, isDirty>>]_vars

\* A list of set and delete operations with well-formed keys and ttls.
WellFormed(arg) ==
  arg.isArray /\ \A i \in DOMAIN arg.items : arg.items[i] \in WellFormedOps

\* The store after the first n operations of a list, each made as a single
\* set or delete call.
RECURSIVE Singles(_, _, _, _)
Singles(st, items, n, t) ==
  IF n = 0 THEN st
  ELSE LET before == Singles(st, items, n - 1, t)
           op == items[n]
       IN IF op.type = "set"
          THEN StSet(before, op.key, op.value, op.ttl, t)
          ELSE StDelete(before, op.key)

\* C18: a batch of well-formed operations leaves the entries and the TTL
\* index as the single calls in list order do, returns one result per
\* operation with its type and key, success true for a set and, for a
\* delete, whether the entry was there just before it, and emits one
\* 'batch' event, after the events of the operations.
C18_BatchAsSingles ==
  [][(last'.op = "batch" /\ WellFormed(last'.arg)) =>
       LET items == last'.arg.items
           res == last'.results
       IN \E singles \in {Singles(Store, items, Len(items), now)} :
          /\ last'.ret # Thrown
          /\ data' = singles.data
          /\ ttlData' = singles.ttl
          /\ Len(res) = Len(items)
          /\ \A i \in DOMAIN items :
               /\ res[i].type = items[i].type
               /\ res[i].key = items[i].key
               /\ res[i].success =
                    (\/ items[i].type = "set"
                     \/ items[i].key \in DOMAIN Singles(Store, items, i - 1, now).data)
          /\ last'.ev = singles.ev \o <<"batch">>
          /\ "batch" \notin Emitted(singles.ev)]_vars

C18_Witness ==
  /\ last.op = "batch"
  /\ Len(last.results) = 2
  /\ last.results[1].type = "delete"
  /\ ~last.results[1].success
  /\ last.results[2].type = "set"
  /\ "a" \in DOMAIN ttlData

\* C19: setTTL(k, ttl) on a key that is absent or expired returns false,
\* leaves no TTL record for k and leaves the dirty flag as it was; on a key
\* that is present and not expired it returns true, records the expiry
\* now + ttl * 1000 and keeps the value of k.
C19_SetTTLOnlyOnPresentKey ==
  [][(last'.op = "setTTL" /\ last'.ret # Thrown) =>
       LET k == last'.key
       IN IF HasResult(k)
          THEN /\ last'.ok
               /\ ttlData'[k] = now + last'.ttl.num * MsPerSecond
               /\ data'[k] = data[k]
          ELSE /\ ~last'.ok
               /\ k \notin DOMAIN ttlData'
               /\ isDirty' = isDirty]_vars

\* C20: when a write started by the auto-save timer fails, an 'error'
\* event is emitted, no exception escapes and the store stays dirty, with
\* or without an 'error' subscriber.
C20_AutoSaveFailureReported ==
  [][(last'.op = "saveDone" /\ ~last'.ok /\ saveCaller = "timer") =>
       /\ "error" \in Emitted(last'.ev)
       /\ last'.ret # Thrown
       /\ isDirty'
       /\ ~crashed']_vars

\* C21: constructing a store with encryption enabled and no encryption key
\* throws and leaves nothing behind: no sweep timer, no auto-save timer, no
\* process hook, no store, and the files and the directory as they were.
C21_KeylessConstructionLeavesNothing ==
  [][(last'.op = "new" /\ last'.opts = KeylessOptions) =>
       /\ last'.ret = Thrown
       /\ ~constructed'
       /\ ~cleanupInterval'
       /\ autoSaveTimer' = "null"
       /\ ~hooks'
       /\ files' = files
       /\ dirExists' = dirExists]_vars

\* A keyless construction was attempted where the directory did not exist.
C21_Witness ==
  /\ last.op = "new"
  /\ last.opts = KeylessOptions
  /\ last.ret = Thrown
  /\ ~dirExists

\* The serialized text of the store as it is now.
CurrentText == Serialize(data, GetAllTTLData(ttlData, now), now)

\* C22: for each of the four combinations of compression and encryption the
\* load-side transform gives back the text the save-side transform was
\* applied to, on the asynchronous path, on the synchronous path and across
\* the two; with both stages on the save side compresses first and encrypts
\* last, and the load side accepts exactly that nesting; the file a completed
\* saveSync() or save() leaves is read back by the other path's load.
C22_CodecInvertible ==
  /\ [](\A o \in CodecChoices :
         LET plain == Bytes(<< >>, CurrentText)
             a == ProcessForStorage(CurrentText, o)
             s == ProcessForStorageSync(CurrentText, o)
         IN /\ ProcessFromStorage(a, o) = plain
            /\ ProcessFromStorageSync(s, o) = plain
            /\ ProcessFromStorage(s, o) = plain
            /\ ProcessFromStorageSync(a, o) = plain
            /\ (o.compression /\ o.encryption) =>
                 /\ a.layers = <<"gzip", "aes">>
                 /\ s.layers = <<"gzip", "aes">>
                 /\ ProcessFromStorage(Bytes(<<"aes", "gzip">>, CurrentText), o) = Corrupt
                 /\ ProcessFromStorageSync(Bytes(<<"aes", "gzip">>, CurrentText), o) = Corrupt)
  /\ [][(last'.op = "saveSync" /\ last'.ok) =>
          ProcessFromStorage(files'[FilePath], options) = Bytes(<< >>, CurrentText)]_vars
  /\ [][last'.op = "saveDone" =>
          /\ LoadableSync(files'[FilePath], options)
          /\ ProcessFromStorageSync(files'[FilePath], options)
               = ProcessFromStorage(savePayload, options)]_vars

\* With both stages on, an asynchronous save of a store that is not empty
\* has completed.
C22_Witness ==
  /\ options = CodecOptions
  /\ last.op = "saveDone"
  /\ DOMAIN data # {}
  /\ files[FilePath].kind = "bytes"
  /\ files[FilePath].text.data = data

\* C23: a firing of the periodic sweep timer leaves every key whose TTL had
\* expired absent from the TTL index and from the entry map, the state an
\* access to the key (get, has, keys, size) leaves.
C23_SweepRemovesEntry ==
  [][last'.op = "sweep" =>
       \A k \in GetExpiredKeys(ttlData, now) :
         /\ k \notin DOMAIN ttlData'
         /\ k \notin DOMAIN data'
         /\ data' = StCleanupExpired(Store, now).data]_vars

\* The calls and callbacks that are meant to leave an entry without a TTL
\* record where it is.
KeepingOps == {"tick", "sweep", "get", "has", "setTTL", "clearTTL"} \cup QueryOps

\* C24: after delete(k) the TTL index holds no record for k, delete returns
\* true exactly when k was in the entry map and emits 'delete' exactly then;
\* after set(k, v) without a ttl the TTL index holds no record for k; and an
\* entry without a TTL record stays, with its value, through the passing of
\* time, the sweep timer and the reading calls.
C24_NoStaleTTL ==
  /\ [][(last'.op = "delete" /\ last'.ret # Thrown) =>
          /\ last'.key \notin DOMAIN ttlData'
          /\ last'.key \notin DOMAIN data'
          /\ last'.ok = (last'.key \in DOMAIN data)
          /\ ("delete" \in Emitted(last'.ev)) = (last'.key \in DOMAIN data)]_vars
  /\ [][(last'.op = "set" /\ last'.ret # Thrown /\ last'.ttl = NullTTL) =>
          /\ last'.key \notin DOMAIN ttlData'
          /\ last'.key \in DOMAIN data']_vars
  /\ [][last'.op \in KeepingOps =>
          \A k \in DOMAIN data \ DOMAIN ttlData :
            k \in DOMAIN data' /\ data'[k] = data[k]]_vars

\* A key that had a TTL was set again without one.
C24_Witness ==
  /\ last.op = "set"
  /\ last.ttl = NullTTL
  /\ "ttl-cleared" \in Emitted(last.ev)
  /\ last.key \in DOMAIN data
  /\ last.key \notin DOMAIN ttlData

\* The keys whose recorded expiry is at or before now.
Due == {k \in DOMAIN ttlData : ttlData[k] <= now}

\* C25: keys(), values(), entries(), size() and isEmpty() remove every key
\* whose recorded expiry is at or before now from the entry map and from the
\* TTL index and no other key, emit one 'expired' notification listing the
\* removed keys when there is one and none otherwise, mark the store dirty
\* in that case, and report over the keys that remain.
C25_QueriesSweepFirst ==
  [][last'.op \in QueryOps =>
       /\ data' = [k \in DOMAIN data \ Due |-> data[k]]
       /\ ttlData' = [k \in DOMAIN ttlData \ Due |-> ttlData[k]]
       /\ last'.ev = IF Due # {} THEN <<"expired">> ELSE << >>
       /\ last'.listed = Due
       /\ Due # {} => isDirty'
       /\ Due = {} => isDirty' = isDirty
       /\ last'.result = QueryResult(last'.op, data')]_vars

\* A query removed two expired keys at once and reported over a store that
\* was left empty.
C25_Witness ==
  /\ last.op = "isEmpty"
  /\ last.listed = {"a", "b"}
  /\ last.result = TRUE
  /\ isDirty

\* C26: get(k) on a key whose TTL has expired removes the entry and its TTL
\* record and nothing else, marks the store dirty, emits 'delete' and no
\* 'get' and returns undefined; get(k) on any other key leaves the entry map,
\* the TTL index and the dirty flag as they were, emits one 'get' and nothing
\* else, and returns the stored value, or undefined when there is none.
C26_GetExpiredDeletes ==
  [][(last'.op = "get" /\ last'.ret # Thrown) =>
       IF last'.key \in Due
       THEN /\ data' = Remove(data, last'.key)
            /\ ttlData' = Remove(ttlData, last'.key)
            /\ isDirty'
            /\ "delete" \in Emitted(last'.ev)
            /\ "get" \notin Emitted(last'.ev)
            /\ last'.ret = Undefined
       ELSE /\ data' = data
            /\ ttlData' = ttlData
            /\ isDirty' = isDirty
            /\ last'.ev = <<"get">>
            /\ last'.ret = MapGet(data, last'.key)]_vars

\* get found an expired key in a store that was clean.
C26_Witness ==
  /\ last.op = "get"
  /\ "delete" \in Emitted(last.ev)
  /\ last.ret = Undefined
  /\ last.key \notin DOMAIN data
  /\ isDirty
  /\ DOMAIN data # {}

\* The calls of the specifications that change the store.
Mutations == {"set", "delete"}

\* C27: at most one auto-save timeout is pending at any time; a timeout is
\* set only by a mutation, with auto-save on and no timeout pending; a
\* mutation made while one is pending sets no other; with auto-save off none
\* is ever set.
C27_AutoSaveDebounced ==
  /\ [](timeouts <= 1)
  /\ [](~options.autoSave => timeouts = 0 /\ autoSaveTimer = "null")
  /\ [][timeouts' > timeouts =>
          /\ last'.op \in Mutations
          /\ options.autoSave
          /\ timeouts = 0]_vars
  /\ [][(last'.op \in Mutations /\ timeouts = 1) => timeouts' = 1]_vars

\* A key was set and then deleted with the timeout of the set still pending:
\* nothing has been written and no write is in flight.
C27_Witness ==
  /\ last.op = "delete"
  /\ last.ok
  /\ timeouts = 1
  /\ autoSaveTimer = "armed"
  /\ files[FilePath] = NoFile
  /\ savePc = "idle"

\* C28: the write the auto-save timeout starts serializes the entry map and
\* the live TTL records as they are when the timeout fires, whatever was
\* changed since the timeout was set; the payload stays the same while the
\* write is in flight and is what the rename leaves in the main file.
C28_TimerFlushWritesCurrentState ==
  /\ [][(last'.op = "autoSave" /\ savePc = "idle" /\ savePc' # "idle") =>
          /\ saveCaller' = "timer"
          /\ Loadable(savePayload', options)
          /\ ProcessFromStorage(savePayload', options).text.data = data
          /\ ProcessFromStorage(savePayload', options).text.ttl
               = [k \in DOMAIN ttlData \ Due |-> ttlData[k]]]_vars
  /\ [][(saveCaller = "timer" /\ saveCaller' = "timer") =>
          savePayload' = savePayload]_vars
  /\ [][(saveCaller = "timer" /\ last'.op = "saveDone" /\ last'.ok) =>
          files'[FilePath] = savePayload]_vars

\* The first write ever made to the file was started by the timeout and
\* wrote an empty store: the key whose set armed the timeout was deleted
\* before the timeout fired.
C28_Witness ==
  /\ last.op = "saveDone"
  /\ last.ok
  /\ files[BackupPath] = NoFile
  /\ files[FilePath].kind = "bytes"
  /\ files[FilePath].text.data = EmptyMap
  /\ files[FilePath].text.timestamp = now

\* The document that holds the entry map and the live TTL records of the
\* current state.
Snapshot(doc) ==
  /\ doc.data = data
  /\ doc.ttl = [k \in DOMAIN ttlData \ Due |-> ttlData[k]]
  /\ doc.timestamp = now

\* C29: the document a save() that starts a write will write is the entry
\* map and the live TTL records of the moment of the call; while the write
\* is suspended it does not change, whatever is done to the store, and the
\* rename leaves exactly it in the main file; the document saveSync() leaves
\* is the entry map and the live TTL records of the moment of the call.
C29_SaveWritesOneInstant ==
  /\ [][(last'.op = "save" /\ ~isWriting) =>
          /\ Loadable(savePayload', options)
          /\ Snapshot(ProcessFromStorage(savePayload', options).text)]_vars
  /\ [][(savePc # "idle" /\ savePc' # "idle") => savePayload' = savePayload]_vars
  /\ [][(last'.op = "saveDone" /\ last'.ok) => files'[FilePath] = savePayload]_vars
  /\ [][(last'.op = "saveSync" /\ last'.ok) =>
          /\ LoadableSync(files'[FilePath], options)
          /\ Snapshot(ProcessFromStorageSync(files'[FilePath], options).text)]_vars

\* A save() has completed whose document differs from the store: the store
\* was changed while the write was suspended.
C29_Witness ==
  /\ last.op = "saveDone"
  /\ last.ok
  /\ files[FilePath].kind = "bytes"
  /\ DOMAIN files[FilePath].text.ttl # {}
  /\ files[FilePath].text.data # data
  /\ files[FilePath].text.timestamp = now

\* The documents on disk and the one being written.
Documents ==
  {files[p].text : p \in {q \in Paths : files[q].kind = "bytes"}}
    \cup (IF savePayload.kind = "bytes" THEN {savePayload.text} ELSE {})

\* C30: every key with a record in the TTL index is a key of the entry map,
\* and in every document a save has written or is writing every key of ttl
\* is a key of data.
C30_TTLKeysAreEntries ==
  /\ DOMAIN ttlData \subseteq DOMAIN data
  /\ \A doc \in Documents : DOMAIN doc.ttl \subseteq DOMAIN doc.data

\* A save() has completed whose document holds a TTL record, with a record
\* in the index.
C30_Witness ==
  /\ last.op = "saveDone"
  /\ files[FilePath].kind = "bytes"
  /\ DOMAIN files[FilePath].text.ttl # {}
  /\ DOMAIN ttlData # {}

\* C31: getAllTTLData gives exactly the records whose expiry is strictly
\* after now, and no document a save has written or is writing holds a TTL
\* record whose expiry is at or before the instant the document was made.
C31_NoExpiredRecordSaved ==
  /\ [](/\ DOMAIN GetAllTTLData(ttlData, now) = {k \in DOMAIN ttlData : ttlData[k] > now}
        /\ \A k \in DOMAIN GetAllTTLData(ttlData, now) :
             GetAllTTLData(ttlData, now)[k] = ttlData[k])
  /\ [](\A doc \in Documents : \A k \in DOMAIN doc.ttl : doc.ttl[k] > doc.timestamp)
  /\ [][(last'.op = "saveSync" /\ last'.ok) =>
          \A k \in DOMAIN files'[FilePath].text.ttl :
            files'[FilePath].text.ttl[k] > now]_vars

\* saveSync() wrote the document of a store that held an expired record.
C31_Witness ==
  /\ last.op = "saveSync"
  /\ last.ok
  /\ Due # {}
  /\ files[FilePath].kind = "bytes"
  /\ files[FilePath].text.timestamp = now
  /\ files[FilePath].text.ttl = EmptyMap

\* C32: for a key with a recorded expiry e, isExpired is true, the key is in
\* getExpiredKeys(), the key is left out of getAllTTLData() and getTTL gives
\* null exactly when now >= e; before that getTTL gives (e - now) / 1000,
\* which is positive; for a key with no record isExpired is false and getTTL
\* gives null; and getTTL(k) returns that answer and changes nothing.
C32_ExpiryPredicatesAgree ==
  /\ [](\A k \in MemKeys :
         IF k \in DOMAIN ttlData
         THEN /\ IsExpired(ttlData, k, now) = (now >= ttlData[k])
              /\ (k \in GetExpiredKeys(ttlData, now)) = (now >= ttlData[k])
              /\ (k \notin DOMAIN GetAllTTLData(ttlData, now)) = (now >= ttlData[k])
              /\ (GetTTL(ttlData, k, now) = NullTTL) = (now >= ttlData[k])
              /\ now < ttlData[k] =>
                   /\ GetTTL(ttlData, k, now) = Remaining(ttlData[k] - now)
                   /\ ttlData[k] - now > 0
         ELSE /\ ~IsExpired(ttlData, k, now)
              /\ GetTTL(ttlData, k, now) = NullTTL)
  /\ [][last'.op = "getTTL" =>
          /\ last'.result = GetTTL(ttlData, last'.key, now)
          /\ UNCHANGED <<data, ttlData, isDirty, autoSaveTimer>>]_vars

\* getTTL was asked about a record whose expiry is exactly now.
C32_Witness ==
  /\ last.op = "getTTL"
  /\ last.key \in DOMAIN ttlData
  /\ ttlData[last.key] = now
  /\ last.result = NullTTL

\* C33: when a save() completes, either the store is left dirty or the
\* document now in the main file holds the entry map and every live TTL
\* record of the store: a mutation applied while the write was in flight
\* leaves the store dirty.
C33_DirtyFlagSound ==
  [][(last'.op = "saveDone" /\ last'.ok) =>
       \/ isDirty'
       \/ /\ files'[FilePath].text.data = data'
          /\ \A k \in DOMAIN ttlData' \ Due' :
               /\ k \in DOMAIN files'[FilePath].text.ttl
               /\ files'[FilePath].text.ttl[k] = ttlData'[k]]_vars

\* C34: with auto-save on and the store open, whenever the store is dirty an
\* auto-save timeout is pending or an asynchronous write is in flight.
C34_FlushScheduledWhileDirty ==
  (options.autoSave /\ Running /\ cleanupInterval /\ isDirty) =>
    (timeouts > 0 \/ isWriting)

\* C35: right after a saveSync() made while a key's TTL had expired, a fresh
\* instance loading the written file does not hold the key.
C35_ExpiredNotResurrected ==
  (last.op = "saveSync" /\ last.ok) =>
    \A k \in Due : k \notin DOMAIN FreshLoad.st.data

\* C36: a saveSync() made while the main file is unreadable and the backup
\* file holds a valid document leaves a valid document in the backup file:
\* a save does not replace the last good document by the corrupt main file.
C36_BackupSurvivesCorruptMain ==
  [][(last'.op = "saveSync" /\ last'.ok /\ MainCorruptBackupValid) =>
       /\ Loadable(files'[BackupPath], options)
       /\ files'[BackupPath] = files[BackupPath]]_vars

\* C37: a write in flight ends, and when it ends, with success or with a
\* failure at any step, the writing flag is false and no caller is left
\* queued; the next save() then starts a write of its own and the next
\* saveSync() is not rejected.
C37_WriteSettles ==
  /\ (isWriting ~> ~isWriting)
  /\ [][last'.op = "saveDone" =>
         ~isWriting' /\ writeQueue' = 0 /\ savePc' = "idle"]_vars
  /\ [][(last.op = "saveDone" /\ last'.op = "save") =>
         isWriting' /\ savePc' = "write" /\ writeQueue' = 0]_vars
  /\ [][(last.op = "saveDone" /\ last'.op = "saveSync") =>
         last'.ok /\ "save" \in Emitted(last'.ev)]_vars

C37_Witness ==
  last.op = "saveDone" /\ ~last.ok /\ last.n > 0 /\ ~isWriting /\ writeQueue = 0

\* C38: a set(k, v) that returned while a load() was suspended on its file
\* read is still in memory when that load() resolves: k maps to v.
C38_MutationSurvivesLoad ==
  [][(/\ loadPc = "read"
      /\ last.op = "set" /\ last.ok
      /\ last'.op = "load" /\ last'.ok) =>
       /\ last.key \in DOMAIN data'
       /\ data'[last.key] = data[last.key]]_vars

\* Nothing is queued and no persist is in progress.
Persisted == shard.built /\ ~shard.isWriting /\ shard.pendingWrites = << >>

\* What a node's data file holds for a key, null when it has none.
OnDisk(node, key) ==
  IF shard.files[node] # NoFile /\ key \in DOMAIN shard.files[node].obj
  THEN shard.files[node].obj[key] ELSE Null

\* What the memory index holds for a key, null when it has none.
InMemory(key) ==
  IF key \in DOMAIN shard.inMemoryIndex THEN shard.inMemoryIndex[key] ELSE Null

\* C39: once a remove(k) was the last call on k and every pending write has
\* been persisted (no persist attempt having failed), no node of k's
\* preference list holds k in its data file, and an instance initialised from
\* the node files does not hold k.
C39_RemovalReachesEveryReplica ==
  \A key \in ShardKeys :
    (Persisted /\ shard.fails = 0 /\ shard.issued[key] = Null) =>
      /\ \A i \in DOMAIN GetPreferenceList(shard, key) :
            OnDisk(GetPreferenceList(shard, key)[i], key) = Null
      /\ key \notin DOMAIN Initialize(shard.files)

\* C40: at most one persist is in progress, and once nothing is pending the
\* memory index and the data file of the first node of k's preference list
\* hold for k what the last set or remove issued on k asked for, whatever
\* persist attempts failed before.
C40_LastIssuedWins ==
  shard.built =>
    /\ shard.persists <= 1
    /\ \A key \in ShardKeys :
          (Persisted /\ shard.issued[key] # NotIssued) =>
            /\ InMemory(key) = shard.issued[key]
            /\ OnDisk(GetPreferenceList(shard, key)[1], key) = shard.issued[key]

====
